---------------------------- MODULE Spec2Model ----------------------------
(***************************************************************************)
(* A model of the compression working state of the Animation Compression   *)
(* Library: the SOA track database (acl/compression/impl/track_database.h) *)
(* over the segments of one clip (acl/compression/stream/segment_context.h)*)
(*                                                                         *)
(* Floats are modelled by integers (every value used is exactly            *)
(* representable), a vector by a 4-tuple <<x, y, z, w>>.  Offsets are byte *)
(* offsets computed as the code computes them; the buffer is a function    *)
(* from float cells (byte offset \div 4) to values.  An access outside the *)
(* allocated buffer is undefined behaviour: a store outside is lost and    *)
(* scrambles what lies there, a load from outside returns whatever the     *)
(* heap holds there (Garbage, under a nondeterministically chosen seed).   *)
(***************************************************************************)
EXTENDS Integers, Sequences, FiniteSets, TLC

VARIABLES
    pc,                      \* "constructing" (SpecAlloc only) | "live" | "destroyed"
    clip,                    \* the AnimationClip handed to the constructor
    segments,                \* segment_context[num_segments], indexed from 0
    m_has_scale,
    m_num_transforms,
    m_num_samples_per_track,
    m_default_scale,
    m_rotation_format,
    m_translation_format,
    m_scale_format,
    m_ranges,                \* qvvf_ranges[num_transforms]
    m_data,                  \* the SOA buffer, one entry per float
    m_data_size,             \* bytes, as limbs
    wild,                    \* seed of what lies outside the buffer
    last,                    \* the last operation called, with its arguments
    accesses,                \* {<<segment index, byte offset>>} touched by the last operation
    num_ops,                 \* operations called so far
    dealloc_size,            \* size handed to IAllocator::deallocate, "none" before
    mutable_database,        \* the mutable track_database over the same clip and segments
    m_skeleton,              \* parent_index of every bone of the RigidSkeleton
    has_assert_checks,       \* whether the build compiles ACL_ASSERT in
    sampled,                 \* the last call of a sampling function, with what it returned and wrote
    tracks,                  \* the track objects of the caller, by the slot each lives in
    track_arrays,            \* the track_array objects of the caller, by slot
    buffers,                 \* every sample buffer there has been, with the deallocations of it
    storages                 \* every tracks storage of a track_array there has been

\* what the sampling functions of sample_streams.h work on, besides the raw database
sampling_vars == <<mutable_database, m_skeleton, has_assert_checks, sampled>>

\* what track.h and track_array.h work on
track_vars == <<tracks, track_arrays, buffers, storages>>

vars == <<pc, clip, segments, m_has_scale, m_num_transforms, m_num_samples_per_track, track_vars,
          m_default_scale, m_rotation_format, m_translation_format, m_scale_format,
          m_ranges, m_data, m_data_size, wild, last, accesses, num_ops, dealloc_size,
          sampling_vars>>

-----------------------------------------------------------------------------
(* Bounds of the model *)

MaxTransforms == 2
MaxClipSamples == 7
MaxOps == 1

\* the configured max-samples-per-segment
SegmentMaxSamples == 5
\* bases of the values the setters are called with
WriteBases == {70}
GarbageSeeds == {0, 1}
ClipSeeds == {0}

\* the sizing of large clips: the longest list of segments, the transform counts and
\* the configured max-samples-per-segment values it is followed for
MaxAllocSegments == 3
\* bones of the skeletons poses are sampled over
MaxBones == 3
AllocTransforms == {1, 1000, 65535}
AllocSegmentSamples == {400, 800}

-----------------------------------------------------------------------------
(* The objects of track.h and track_array.h before any is constructed *)

\* the track and the track_array variables of the caller
TrackSlots == {1, 2}
TrackArraySlots == {1, 2}
\* allocations of sample buffers made over a run
MaxBuffers == 2

\* a slot no track object lives in
NoTrack ==
    [live |-> FALSE, m_allocator |-> 0, m_data |-> 0, m_num_samples |-> 0, m_stride |-> 0,
     m_data_size |-> 0, m_sample_rate |-> 0, m_type |-> "float1f", m_category |-> "scalarf",
     m_element_size |-> 0, m_desc |-> [output_index |-> 0], origin |-> "none"]

\* a slot no track_array object lives in
NoTrackArray == [live |-> FALSE, m_allocator |-> 0, m_tracks |-> 0, m_num_tracks |-> 0]

NoTracks ==
    /\ tracks = [t \in TrackSlots |-> NoTrack]
    /\ track_arrays = [a \in TrackArraySlots |-> NoTrackArray]
    /\ buffers = <<>>
    /\ storages = <<>>

-----------------------------------------------------------------------------
(* Program constants *)

k_simd_width == 4
SizeofFloat == 4

\* A uint32_t that may exceed TLC's 32-bit integers is kept as two 16-bit limbs
\* [hi, lo]; AddU32 wraps as uint32_t addition does, AddExact keeps the carries in hi.
Limb == 65536
ToU32(n) == [hi |-> (n \div Limb) % Limb, lo |-> n % Limb]
AddU32(a, b) ==
    LET lo == a.lo + b.lo
        hi == a.hi + b.hi + (lo \div Limb)
    IN  [hi |-> hi % Limb, lo |-> lo % Limb]
AddExact(a, b) ==
    LET lo == a.lo + b.lo
    IN  [hi |-> a.hi + b.hi + (lo \div Limb), lo |-> lo % Limb]
\* the value of a uint32_t below 2^31
U32Value(w) == w.hi * Limb + w.lo

RotationFormat8 == {"Quat_128", "QuatDropW_96", "QuatDropW_48", "QuatDropW_32", "QuatDropW_Variable"}
VectorFormat8 == {"Vector3_96", "Vector3_48", "Vector3_32", "Vector3_Variable"}

\* get_num_components_per_transform, as written
get_num_components_per_transform(has_scale) == IF has_scale THEN 7 ELSE 10

-----------------------------------------------------------------------------
(* The clip: the keyframe provider's samples *)

\* a distinct number for every (transform, channel, component, sample)
SampleCode(seed, t, ch, k, j) == 10000 * seed + 1000 * (t + 1) + 100 * ch + 10 * k + j

\* the clips whose rotation samples are unit quaternions
UnitClipSeeds == {2}

\* rotation samples are not unit: length 2 along one axis, either sign; those of
\* the clips of UnitClipSeeds are of length 1
RawRotation(seed, t, j) ==
    LET axis == ((t + j + seed) % 4) + 1
        len  == IF seed \in UnitClipSeeds THEN 1 ELSE 2
        mag  == IF (t + j) % 3 = 2 THEN -len ELSE len
    IN  [k \in 1..4 |-> IF k = axis THEN mag ELSE 0]

\* the clips of SmallClipSeeds move within a few units: translations over 0, 1, 2
\* in every component, scales over 1, 2
SmallClipSeeds == {1}

RawTranslation(seed, t, j) ==
    IF seed \in SmallClipSeeds THEN <<(j + t) % 3, (j + t) % 3, (j + t) % 3, 0>>
    ELSE <<SampleCode(seed, t, 1, 0, j), SampleCode(seed, t, 1, 1, j), SampleCode(seed, t, 1, 2, j), 0>>

RawScale(seed, t, j) ==
    IF seed \in SmallClipSeeds THEN <<1 + (j % 2), 2, 1 + ((j + t) % 2), 0>>
    ELSE <<SampleCode(seed, t, 2, 0, j), SampleCode(seed, t, 2, 1, j), SampleCode(seed, t, 2, 2, j), 0>>

ISqrt(n) == CHOOSE r \in 0..n : r * r <= n /\ (r + 1) * (r + 1) > n

\* quat_normalize: q / |q| (exact on the axis-aligned inputs used)
quat_normalize(q) ==
    LET len == ISqrt(q[1] * q[1] + q[2] * q[2] + q[3] * q[3] + q[4] * q[4])
    IN  [k \in 1..4 |-> q[k] \div len]

\* quat_cast / vector_cast, double to float: exact below 2^24
FloatCast(v) == [k \in 1..4 |-> IF v[k] < 16777216 /\ v[k] > -16777216 THEN v[k] ELSE (v[k] \div 2) * 2]

\* acl::get_default_scale(additive_format)
get_default_scale(additive) == IF additive = "Additive1" THEN <<0, 0, 0, 0>> ELSE <<1, 1, 1, 1>>

-----------------------------------------------------------------------------
(* Segments: the layout the segment model produces *)

AlignTo(n, w) == ((n + w - 1) \div w) * w

LayoutComponents(has_scale) == IF has_scale THEN 10 ELSE 7

NumSegmentsOf(N, M) == (N + M - 1) \div M

\* the number of samples of each segment of a clip of N samples cut every M samples
SegmentCounts(N, M) ==
    [i \in 0..(NumSegmentsOf(N, M) - 1) |-> IF (i + 1) * M <= N THEN M ELSE N - i * M]

SegmentSoaSize(n, T, hs) == ToU32(T * LayoutComponents(hs) * AlignTo(n, k_simd_width) * SizeofFloat)

RECURSIVE SegmentSoaStart(_, _, _, _)
SegmentSoaStart(counts, T, hs, i) ==
    IF i = 0 THEN ToU32(0)
    ELSE AddU32(SegmentSoaStart(counts, T, hs, i - 1), SegmentSoaSize(counts[i - 1], T, hs))

RECURSIVE SegmentStart(_, _)
SegmentStart(counts, i) == IF i = 0 THEN 0 ELSE SegmentStart(counts, i - 1) + counts[i - 1]

\* counts: the number of samples of each segment, indexed from 0
MakeSegments(counts, T, hs) ==
    [i \in DOMAIN counts |->
        [index                      |-> i,
         num_transforms             |-> T,
         start_offset               |-> SegmentStart(counts, i),
         num_samples_per_track      |-> counts[i],
         num_simd_samples_per_track |-> AlignTo(counts[i], k_simd_width),
         soa_size                   |-> SegmentSoaSize(counts[i], T, hs),
         soa_start_offset           |-> SegmentSoaStart(counts, T, hs, i)]]

NumSegments == Cardinality(DOMAIN segments)

-----------------------------------------------------------------------------
(* Addressing, as every accessor and the constructor compute it (uint32_t) *)

\* (uint32_t arithmetic; every offset of the model stays far below 2^32)
ComponentSize(seg) == SizeofFloat * seg.num_simd_samples_per_track

TransformSize(hs, seg) == ComponentSize(seg) * get_num_components_per_transform(hs)

RotationOffset(hs, seg, t) == t * TransformSize(hs, seg)

TranslationOffset(hs, seg, t) == RotationOffset(hs, seg, t) + ComponentSize(seg) * 4

ScaleOffset(hs, seg, t) == TranslationOffset(hs, seg, t) + ComponentSize(seg) * 3

\* ch: 0 rotation, 1 translation, 2 scale
ChannelOffset(hs, seg, t, ch) ==
    CASE ch = 0 -> RotationOffset(hs, seg, t)
      [] ch = 1 -> TranslationOffset(hs, seg, t)
      [] ch = 2 -> ScaleOffset(hs, seg, t)

NumComponents(ch) == IF ch = 0 THEN 4 ELSE 3

\* byte offset from m_data of component k (x = 0 .. w = 3), sample i
\* (segment_data + channel offset + offset_k, indexed as float*)
ByteOffset(hs, seg, t, ch, k, i) ==
    U32Value(seg.soa_start_offset) + ChannelOffset(hs, seg, t, ch) + k * ComponentSize(seg)
        + SizeofFloat * i

-----------------------------------------------------------------------------
(* The buffer *)

InBuffer(size, a) == a >= 0 /\ a + SizeofFloat <= size

\* what a load from outside the buffer may return
Garbage(g, a) == 0 - (1 + ((g * (a \div SizeofFloat)) % 3))

Load(mem, size, g, a) == IF InBuffer(size, a) THEN mem[a \div SizeofFloat] ELSE Garbage(g, a)

\* st = [mem, acc]: the buffer and the accesses so far; s is the segment index
StoreAt(st, size, s, a, v) ==
    [mem |-> IF InBuffer(size, a) THEN [st.mem EXCEPT ![a \div SizeofFloat] = v] ELSE st.mem,
     acc |-> st.acc \cup {<<s, a>>}]

\* track_x[i] = vec.x; track_y[i] = vec.y; ... for the channel's components from k on
RECURSIVE StoreComponents(_, _, _, _, _, _, _, _, _)
StoreComponents(st, size, hs, seg, t, ch, i, vec, k) ==
    IF k >= NumComponents(ch) THEN st
    ELSE StoreComponents(StoreAt(st, size, seg.index, ByteOffset(hs, seg, t, ch, k, i), vec[k + 1]),
                         size, hs, seg, t, ch, i, vec, k + 1)

\* vector_set(track_x[i], track_y[i], track_z[i], w-or-0)
LoadVector(mem, size, g, hs, seg, t, ch, i) ==
    [k \in 1..4 |-> IF k <= NumComponents(ch)
                    THEN Load(mem, size, g, ByteOffset(hs, seg, t, ch, k - 1, i))
                    ELSE 0]

-----------------------------------------------------------------------------
(* track_database::track_database *)

\* cx = [hs, size, seed, g]: has_scale_, data_size, the clip's samples, the heap outside

\* uint32_t data_size = 0; for (...) data_size += segments[segment_index].soa_size;
RECURSIVE AccumulateDataSize(_, _, _, _)
AccumulateDataSize(segs, segment_index, num_segments, data_size) ==
    IF segment_index >= num_segments THEN data_size
    ELSE AccumulateDataSize(segs, segment_index + 1, num_segments,
                            AddU32(data_size, segs[segment_index].soa_size))

\* the index handed to rotation_track / translation_track / scale_track .get_sample
ClipSampleIndex(seg, sample_index) == sample_index

\* components of a transform in store order: 0..3 rotation x..w, 4..6 translation
\* x..z, 7..9 scale x..z (stored only with has_scale_)
ChannelOf(c) == IF c < 4 THEN 0 ELSE IF c < 7 THEN 1 ELSE 2
ComponentOf(c) == IF c < 4 THEN c ELSE IF c < 7 THEN c - 4 ELSE c - 7
StoredComponents(hs) == IF hs THEN 0..9 ELSE 0..6

SlotOffset(cx, seg, t, c, i) == ByteOffset(cx.hs, seg, t, ChannelOf(c), ComponentOf(c), i)

\* what iteration i of "Copy the samples into SOA layout" stores for component c
CopiedValue(cx, seg, t, c, i) ==
    LET j == ClipSampleIndex(seg, i)
    IN  CASE c < 4 -> quat_normalize(FloatCast(RawRotation(cx.seed, t, j)))[c + 1]
          [] c >= 4 /\ c < 7 -> FloatCast(RawTranslation(cx.seed, t, j))[c - 3]
          [] c >= 7 -> FloatCast(RawScale(cx.seed, t, j))[c - 6]

\* The stores of one loop over the slots W of one transform, where no two stores
\* hit the same float: the buffer after the loop.  A store outside the buffer is lost.
StoreAll(mem, cx, seg, t, W, value) ==
    LET cells == {SlotOffset(cx, seg, t, w[1], w[2]) \div SizeofFloat : w \in W} \cap DOMAIN mem
        slot  == [a \in cells |-> CHOOSE w \in W : SlotOffset(cx, seg, t, w[1], w[2]) = a * SizeofFloat]
    IN  [a \in DOMAIN mem |-> IF a \in cells THEN value[slot[a]] ELSE mem[a]]

\* for (sample_index = 0; sample_index < segment.num_samples_per_track; ++sample_index)
CopySamples(mem, cx, seg, t) ==
    LET W == StoredComponents(cx.hs) \X (0..(seg.num_samples_per_track - 1))
        value == [w \in W |-> CopiedValue(cx, seg, t, w[1], w[2])]
    IN  StoreAll(mem, cx, seg, t, W, value)

\* for (sample_index = segment.num_samples_per_track; sample_index < num_simd_samples_per_track; ...)
\*     track[sample_index] = track[segment.num_samples_per_track - 1];
PadSamples(mem, cx, seg, t) ==
    LET W == StoredComponents(cx.hs)
                \X (seg.num_samples_per_track..(seg.num_simd_samples_per_track - 1))
        value == [w \in W |-> Load(mem, cx.size, cx.g, SlotOffset(cx, seg, t, w[1], seg.num_samples_per_track - 1))]
    IN  StoreAll(mem, cx, seg, t, W, value)

RECURSIVE ConstructTransforms(_, _, _, _, _)
ConstructTransforms(mem, cx, seg, transform_index, num_transforms) ==
    IF transform_index >= num_transforms THEN mem
    ELSE ConstructTransforms(PadSamples(CopySamples(mem, cx, seg, transform_index), cx, seg, transform_index),
                             cx, seg, transform_index + 1, num_transforms)

RECURSIVE ConstructSegments(_, _, _, _, _, _)
ConstructSegments(mem, cx, segs, segment_index, num_segments, num_transforms) ==
    IF segment_index >= num_segments THEN mem
    ELSE ConstructSegments(ConstructTransforms(mem, cx, segs[segment_index], 0, num_transforms),
                           cx, segs, segment_index + 1, num_segments, num_transforms)

\* every float the two loops store to, with the segment it is stored for
ConstructorStores(cx, segs, num_transforms) ==
    UNION {{<<s, SlotOffset(cx, segs[s], w[1], w[2], w[3])>> :
                w \in (0..(num_transforms - 1)) \X StoredComponents(cx.hs)
                        \X (0..(segs[s].num_simd_samples_per_track - 1))} :
           s \in DOMAIN segs}

\* std::memset(m_ranges, 0, ...)
ZeroRanges ==
    [rotation_min    |-> <<0, 0, 0, 0>>, rotation_max    |-> <<0, 0, 0, 0>>, rotation_extent    |-> <<0, 0, 0, 0>>,
     translation_min |-> <<0, 0, 0>>,    translation_max |-> <<0, 0, 0>>,    translation_extent |-> <<0, 0, 0>>,
     scale_min       |-> <<0, 0, 0>>,    scale_max       |-> <<0, 0, 0>>,    scale_extent       |-> <<0, 0, 0>>,
     is_rotation_constant    |-> FALSE, is_rotation_default    |-> FALSE,
     is_translation_constant |-> FALSE, is_translation_default |-> FALSE,
     is_scale_constant       |-> FALSE, is_scale_default       |-> FALSE,
     are_rotations_normalized |-> FALSE, are_translations_normalized |-> FALSE,
     are_scales_normalized    |-> FALSE]

AdditiveFormats == {"None", "Additive1"}

NoOp == [op |-> "construct", segment |-> 0, transform |-> 0, sample |-> 0, value |-> <<0, 0, 0, 0>>]

\* the database as the constructor leaves it
Constructed(c, segs, g) ==
    LET num_segments == Cardinality(DOMAIN segs)
        data_size    == AccumulateDataSize(segs, 0, num_segments, ToU32(0))
        size         == U32Value(data_size)
        cx           == [hs |-> c.has_scale, size |-> size, seed |-> c.seed, g |-> g]
        fresh        == [a \in 0..((size \div SizeofFloat) - 1) |-> Garbage(g, a * SizeofFloat)]
        mem          == ConstructSegments(fresh, cx, segs, 0, num_segments, c.num_bones)
    IN  /\ pc = "live"
        /\ clip = c
        /\ segments = segs
        /\ m_has_scale = c.has_scale
        /\ m_num_transforms = c.num_bones
        /\ m_num_samples_per_track = c.num_samples
        /\ m_default_scale = get_default_scale(c.additive_format)
        /\ m_rotation_format = "Quat_128"
        /\ m_translation_format = "Vector3_96"
        /\ m_scale_format = "Vector3_96"
        /\ m_ranges = [t \in 0..(c.num_bones - 1) |-> ZeroRanges]
        /\ m_data = mem
        /\ m_data_size = data_size
        /\ wild = g
        /\ last = NoOp
        /\ accesses = ConstructorStores(cx, segs, c.num_bones)
        /\ num_ops = 0
        /\ dealloc_size = "none"
        /\ NoTracks

\* no mutable database yet
NoDatabase == [stage |-> "none", m_data |-> <<>>, m_ranges |-> <<>>, m_rotation_format |-> "Quat_128"]

\* no sampling function called yet
NoSample ==
    [fn |-> "none", database |-> "none", segment |-> 0, transform |-> 0, sample |-> 0,
     bit_rate |-> 0, result |-> <<>>, failed_assert |-> FALSE, writes |-> <<>>, returned |-> TRUE]

\* one database alone: no mutable database beside it, nothing sampled
NoSampling ==
    /\ mutable_database = NoDatabase
    /\ m_skeleton = <<>>
    /\ has_assert_checks = FALSE
    /\ sampled = NoSample

\* the database constructed over a clip of N samples of T transforms
InitFor(T, N, hs) ==
    \E M \in {SegmentMaxSamples}, add \in AdditiveFormats, seed \in ClipSeeds, g \in GarbageSeeds :
        /\ Constructed([num_samples |-> N, num_bones |-> T, has_scale |-> hs,
                        additive_format |-> add, seed |-> seed],
                       MakeSegments(SegmentCounts(N, M), T, hs), g)
        /\ NoSampling

Init == \E T \in 1..MaxTransforms, N \in 1..MaxClipSamples, hs \in BOOLEAN : InitFor(T, N, hs)

\* the clips with scale, where every access stays inside the buffer
InitWithScale == \E T \in 1..MaxTransforms, N \in 1..MaxClipSamples : InitFor(T, N, TRUE)

\* the clips of one transform, where the per-transform stride plays no part
InitOneTransform == \E N \in 1..MaxClipSamples, hs \in BOOLEAN : InitFor(1, N, hs)

-----------------------------------------------------------------------------
(* Accessors; a segment is given by its index in segments *)

DataSizeBytes == U32Value(m_data_size)

\* a pointer into the buffer: null, or the byte offset from m_data it points at
nullptr == [null |-> TRUE, offset |-> 0]
PointerTo(a) == [null |-> FALSE, offset |-> a]

\* the out pointers a view accessor sets, for the channel's components x.. of sample 0
get_rotations(s, t) ==
    [x |-> PointerTo(ByteOffset(m_has_scale, segments[s], t, 0, 0, 0)),
     y |-> PointerTo(ByteOffset(m_has_scale, segments[s], t, 0, 1, 0)),
     z |-> PointerTo(ByteOffset(m_has_scale, segments[s], t, 0, 2, 0)),
     w |-> PointerTo(ByteOffset(m_has_scale, segments[s], t, 0, 3, 0))]

get_translations(s, t) ==
    [x |-> PointerTo(ByteOffset(m_has_scale, segments[s], t, 1, 0, 0)),
     y |-> PointerTo(ByteOffset(m_has_scale, segments[s], t, 1, 1, 0)),
     z |-> PointerTo(ByteOffset(m_has_scale, segments[s], t, 1, 2, 0))]

get_scales_always_view(s, t) ==
    [x |-> PointerTo(ByteOffset(m_has_scale, segments[s], t, 2, 0, 0)),
     y |-> PointerTo(ByteOffset(m_has_scale, segments[s], t, 2, 1, 0)),
     z |-> PointerTo(ByteOffset(m_has_scale, segments[s], t, 2, 2, 0))]

get_scales(s, t) ==
    IF ~m_has_scale
    THEN [x |-> nullptr, y |-> nullptr, z |-> nullptr]
    ELSE [x |-> PointerTo(ByteOffset(m_has_scale, segments[s], t, 2, 0, 0)),
          y |-> PointerTo(ByteOffset(m_has_scale, segments[s], t, 2, 1, 0)),
          z |-> PointerTo(ByteOffset(m_has_scale, segments[s], t, 2, 2, 0))]

get_rotation(s, t, i) == LoadVector(m_data, DataSizeBytes, wild, m_has_scale, segments[s], t, 0, i)

get_translation(s, t, i) == LoadVector(m_data, DataSizeBytes, wild, m_has_scale, segments[s], t, 1, i)

get_scale_always_load(s, t, i) == LoadVector(m_data, DataSizeBytes, wild, m_has_scale, segments[s], t, 2, i)

get_scale(s, t, i) ==
    IF ~m_has_scale
    THEN m_default_scale
    ELSE LoadVector(m_data, DataSizeBytes, wild, m_has_scale, segments[s], t, 2, i)

\* the caller may call a member function: the database is alive (and the model's
\* bound on the number of calls is not reached)
CanCall == pc = "live" /\ num_ops < MaxOps

\* the setters' stores, then what the caller sees of them
Stored(op, ch, v, s, t, i) ==
    LET st == StoreComponents([mem |-> m_data, acc |-> {}], DataSizeBytes, m_has_scale,
                              segments[s], t, ch, i, v, 0)
    IN  /\ m_data' = st.mem
        /\ accesses' = st.acc
        /\ IF \E e \in st.acc : ~InBuffer(DataSizeBytes, e[2])
           THEN wild' \in GarbageSeeds
           ELSE wild' = wild
        /\ last' = [op |-> op, segment |-> s, transform |-> t, sample |-> i, value |-> v]
        /\ num_ops' = num_ops + 1
        /\ UNCHANGED <<pc, clip, sampling_vars, segments, m_has_scale, m_num_transforms, m_num_samples_per_track, track_vars,
                       m_default_scale, m_rotation_format, m_translation_format, m_scale_format,
                       m_ranges, m_data_size, dealloc_size>>

set_rotation(v, s, t, i) ==
    /\ CanCall
    /\ Stored("set_rotation", 0, v, s, t, i)

set_translation(v, s, t, i) ==
    /\ CanCall
    /\ Stored("set_translation", 1, v, s, t, i)

set_scale_always_store(v, s, t, i) ==
    /\ CanCall
    /\ Stored("set_scale", 2, v, s, t, i)

set_scale(v, s, t, i) ==
    /\ CanCall
    /\ IF ~m_has_scale
       THEN /\ last' = [op |-> "set_scale", segment |-> s, transform |-> t, sample |-> i, value |-> v]
            /\ num_ops' = num_ops + 1
            /\ accesses' = {}
            /\ UNCHANGED <<pc, clip, sampling_vars, segments, m_has_scale, m_num_transforms, m_num_samples_per_track, track_vars,
                           m_default_scale, m_rotation_format, m_translation_format, m_scale_format,
                           m_ranges, m_data, m_data_size, wild, dealloc_size>>
       ELSE Stored("set_scale", 2, v, s, t, i)

set_rotation_format(format) ==
    /\ CanCall
    /\ m_rotation_format' = format
    /\ last' = [op |-> "set_rotation_format", segment |-> 0, transform |-> 0, sample |-> 0,
                value |-> <<0, 0, 0, 0>>]
    /\ num_ops' = num_ops + 1
    /\ accesses' = {}
    /\ UNCHANGED <<pc, clip, sampling_vars, segments, m_has_scale, m_num_transforms, m_num_samples_per_track, track_vars,
                   m_default_scale, m_translation_format, m_scale_format,
                   m_ranges, m_data, m_data_size, wild, dealloc_size>>

\* track_database::~track_database
Destructor ==
    /\ pc = "live"
    /\ pc' = "destroyed"
    /\ dealloc_size' = m_data_size
    /\ UNCHANGED <<clip, sampling_vars, segments, m_has_scale, m_num_transforms, m_num_samples_per_track, track_vars,
                   m_default_scale, m_rotation_format, m_translation_format, m_scale_format,
                   m_ranges, m_data, m_data_size, wild, last, accesses, num_ops>>

-----------------------------------------------------------------------------
(* The arguments the operations are called with *)

Transforms == 0..(m_num_transforms - 1)
SimdSamples(s) == 0..(segments[s].num_simd_samples_per_track - 1)
Samples(s) == 0..(segments[s].num_samples_per_track - 1)
\* the sample indices the setters are called with: the first sample, the last
\* sample and the last padding slot of the segment
SetSamples(s) == {0, segments[s].num_samples_per_track - 1, segments[s].num_simd_samples_per_track - 1}

WriteValues == {<<b + 1, b + 2, b + 3, b + 4>> : b \in WriteBases}

Next ==
    \/ /\ CanCall
       /\ \E s \in DOMAIN segments, t \in Transforms : \E i \in SetSamples(s) :
            \E v \in WriteValues \cup {get_rotation(s, t, i)} : set_rotation(v, s, t, i)
    \/ /\ CanCall
       /\ \E s \in DOMAIN segments, t \in Transforms : \E i \in SetSamples(s) :
            \E v \in WriteValues \cup {get_translation(s, t, i)} : set_translation(v, s, t, i)
    \/ /\ CanCall
       /\ \E s \in DOMAIN segments, t \in Transforms : \E i \in SetSamples(s) :
            \E v \in WriteValues \cup {get_scale(s, t, i)} : set_scale(v, s, t, i)
    \/ \E format \in RotationFormat8 : set_rotation_format(format)
    \/ Destructor

Spec == Init /\ [][Next]_vars

SpecWithScale == InitWithScale /\ [][Next]_vars

SpecOneTransform == InitOneTransform /\ [][Next]_vars

-----------------------------------------------------------------------------
(* What the claims speak of *)

GetChannel(ch, s, t, i) ==
    CASE ch = 0 -> get_rotation(s, t, i)
      [] ch = 1 -> get_translation(s, t, i)
      [] ch = 2 -> get_scale(s, t, i)

SetterOps == {"set_rotation", "set_translation", "set_scale"}

OpChannel(op) ==
    CASE op = "set_rotation" -> 0
      [] op = "set_translation" -> 1
      [] op = "set_scale" -> 2

\* this step is a call of a setter at a sample of the segment (not a padding slot)
SetterStep ==
    /\ num_ops' = num_ops + 1
    /\ last'.op \in SetterOps
    /\ last'.sample \in Samples(last'.segment)

\* the database has just been constructed
JustConstructed == pc = "live" /\ num_ops = 0

\* the bytes of segment s
InSegment(s, a) ==
    /\ U32Value(segments[s].soa_start_offset) <= a
    /\ a + SizeofFloat <= U32Value(segments[s].soa_start_offset) + U32Value(segments[s].soa_size)

\* the channels a database stores
Channels == IF m_has_scale THEN 0..2 ELSE 0..1

-----------------------------------------------------------------------------
(* C1..C10: the track database *)

\* C1: a call of set_rotation, set_translation or set_scale at a (segment, transform,
\* sample) changes what get_rotation, get_translation and get_scale return at no other
\* (segment', transform', channel', sample').
C1_SetterChangesOneAddress ==
    [][SetterStep =>
        \A s \in DOMAIN segments, t \in Transforms, ch \in 0..2 : \A i \in Samples(s) :
            <<s, t, ch, i>> /= <<last'.segment, last'.transform, OpChannel(last'.op), last'.sample>>
                => GetChannel(ch, s, t, i)' = GetChannel(ch, s, t, i)]_vars

\* C2: the per-transform stride is component_size * C, with component_size =
\* 4 * num_simd_samples_per_track, C = 7 without scale and C = 10 with scale; the
\* rotation base is soa_start_offset + transform_index * stride, the translation base
\* is 4 components further and the scale base 3 components further again.
C2_StrideIsSevenOrTenComponents ==
    pc = "live" =>
        \A s \in DOMAIN segments, t \in Transforms :
            LET seg            == segments[s]
                component_size == 4 * seg.num_simd_samples_per_track
                stride         == component_size * (IF m_has_scale THEN 10 ELSE 7)
                rotation_base  == U32Value(seg.soa_start_offset) + t * stride
            IN  /\ ComponentSize(seg) = component_size
                /\ TransformSize(m_has_scale, seg) = stride
                /\ get_rotations(s, t).x = PointerTo(rotation_base)
                /\ get_translations(s, t).x = PointerTo(rotation_base + 4 * component_size)
                /\ ByteOffset(m_has_scale, seg, t, 2, 0, 0) = rotation_base + 7 * component_size

\* C3: after construction the sample i of segment s of transform t is the clip's
\* sample s.start_offset + i of that transform, the rotation normalized.
C3_SegmentHoldsItsWindow ==
    JustConstructed =>
        \A s \in DOMAIN segments, t \in Transforms : \A i \in Samples(s) :
            LET j == segments[s].start_offset + i
            IN  /\ get_rotation(s, t, i) = quat_normalize(RawRotation(clip.seed, t, j))
                /\ get_translation(s, t, i) = RawTranslation(clip.seed, t, j)
                /\ m_has_scale => get_scale(s, t, i) = RawScale(clip.seed, t, j)

\* C4: after construction every padding slot (num_samples_per_track <= i <
\* num_simd_samples_per_track) of every stored channel holds what slot
\* num_samples_per_track - 1 holds.
C4_PaddingRepeatsLastSample ==
    JustConstructed =>
        \A s \in DOMAIN segments, t \in Transforms, ch \in Channels :
            \A i \in SimdSamples(s) \ Samples(s) :
                GetChannel(ch, s, t, i) = GetChannel(ch, s, t, segments[s].num_samples_per_track - 1)

\* C5: every float the constructor stores, and every float an accessor reads or
\* writes for a valid transform, channel, component and index below
\* num_simd_samples_per_track, lies in its segment's bytes [soa_start_offset,
\* soa_start_offset + soa_size) and in the allocated buffer.
C5_AccessesStayInSegment ==
    pc = "live" =>
        /\ \A e \in accesses : InSegment(e[1], e[2]) /\ InBuffer(DataSizeBytes, e[2])
        /\ \A s \in DOMAIN segments, t \in Transforms, ch \in Channels :
            \A k \in 0..(NumComponents(ch) - 1), i \in SimdSamples(s) :
                LET a == ByteOffset(m_has_scale, segments[s], t, ch, k, i)
                IN  InSegment(s, a) /\ InBuffer(DataSizeBytes, a)

\* C6: at a sample of a segment, a getter returns after a setter what the setter was
\* given (four components of a rotation, x, y, z of a translation and, with scale, of
\* a scale), and setting what the getter returned changes nothing in the buffer.
C6_SetThenGetRoundTrip ==
    [][(SetterStep /\ (last'.op = "set_scale" => m_has_scale)) =>
        \A s \in DOMAIN segments, t \in Transforms, ch \in 0..2 : \A i \in Samples(s) :
            <<s, t, ch, i>> = <<last'.segment, last'.transform, OpChannel(last'.op), last'.sample>>
                => /\ \A k \in 1..NumComponents(ch) : GetChannel(ch, s, t, i)'[k] = last'.value[k]
                   /\ (\A k \in 1..NumComponents(ch) : last'.value[k] = GetChannel(ch, s, t, i)[k])
                        => m_data' = m_data]_vars

-----------------------------------------------------------------------------
(* The sizing of the buffer, followed for clips too large to follow the copy of.
   The constructor's size is a function of the segment list alone, so this
   specification starts before the constructor body, with the members its
   initializer list has set, and takes two steps: the accumulation and allocation,
   then the destructor. The contents of the buffer are left empty here. *)

InitAlloc ==
    \E T \in AllocTransforms, M \in AllocSegmentSamples, L \in 1..MaxAllocSegments,
       hs \in BOOLEAN, add \in AdditiveFormats :
        \E n \in {M, 16} :
            LET N == (L - 1) * M + n
            IN  /\ pc = "constructing"
                /\ clip = [num_samples |-> N, num_bones |-> T, has_scale |-> hs,
                           additive_format |-> add, seed |-> 0]
                /\ segments = MakeSegments(SegmentCounts(N, M), T, hs)
                /\ m_has_scale = hs
                /\ m_num_transforms = T
                /\ m_num_samples_per_track = N
                /\ m_default_scale = <<0, 0, 0, 0>>
                /\ m_rotation_format = "Quat_128"
                /\ m_translation_format = "Vector3_96"
                /\ m_scale_format = "Vector3_96"
                /\ m_ranges = <<>>
                /\ m_data = <<>>
                /\ m_data_size = ToU32(0)
                /\ wild = 0
                /\ last = NoOp
                /\ accesses = {}
                /\ num_ops = 0
                /\ dealloc_size = "none"
                /\ NoTracks
                /\ NoSampling

\* uint32_t data_size = 0; for (...) data_size += soa_size; m_data = allocate(...);
\* m_data_size = data_size; m_default_scale = get_default_scale(...)
AllocateData ==
    /\ pc = "constructing"
    /\ pc' = "live"
    /\ m_data_size' = AccumulateDataSize(segments, 0, NumSegments, ToU32(0))
    /\ m_default_scale' = get_default_scale(clip.additive_format)
    /\ UNCHANGED <<clip, sampling_vars, segments, m_has_scale, m_num_transforms, m_num_samples_per_track, track_vars,
                   m_rotation_format, m_translation_format, m_scale_format,
                   m_ranges, m_data, wild, last, accesses, num_ops, dealloc_size>>

NextAlloc ==
    \/ AllocateData
    \/ Destructor

SpecAlloc == InitAlloc /\ [][NextAlloc]_vars

\* the sum of soa_size over the segments, carries kept
RECURSIVE SumOfSoaSizes(_, _)
SumOfSoaSizes(segs, n) ==
    IF n = 0 THEN ToU32(0) ELSE AddExact(SumOfSoaSizes(segs, n - 1), segs[n - 1].soa_size)

\* C7: once allocated, m_data_size is the sum of soa_size over all segments handed
\* to the constructor, and the destructor hands that same size to deallocate.
C7_DataSizeIsSumOfSoaSizes ==
    /\ pc \in {"live", "destroyed"} => m_data_size = SumOfSoaSizes(segments, NumSegments)
    /\ pc = "destroyed" => dealloc_size = m_data_size

\* C8: without scale, get_scale returns the clip's default scale at every segment,
\* transform and sample index, before and after any calls of the setters.
C8_DefaultScaleWithoutScale ==
    (pc = "live" /\ ~m_has_scale) =>
        \A s \in DOMAIN segments, t \in Transforms : \A i \in SimdSamples(s) :
            get_scale(s, t, i) = get_default_scale(clip.additive_format)

\* a database without scale whose default scale is zero, after a setter stored a
\* translation, answers get_scale there
C8_Witness ==
    /\ pc = "live" /\ ~m_has_scale
    /\ clip.additive_format = "Additive1"
    /\ last.op = "set_translation" /\ last.value \in WriteValues
    /\ get_scale(last.segment, last.transform, last.sample) = <<0, 0, 0, 0>>

\* a view is readable when its pointer is not null and its num_simd_samples floats lie
\* in the buffer
ViewReadable(ptr, s) ==
    /\ ~ptr.null
    /\ \A i \in SimdSamples(s) : InBuffer(DataSizeBytes, ptr.offset + SizeofFloat * i)

ViewEntry(ptr, i) == Load(m_data, DataSizeBytes, wild, ptr.offset + SizeofFloat * i)

\* C9 as claimed: without scale, get_scales returns three readable views of
\* num_simd_samples entries, every entry the default scale.
C9_SynthesizedDefaultScaleView ==
    (pc = "live" /\ ~m_has_scale) =>
        \A s \in DOMAIN segments, t \in Transforms :
            LET view == get_scales(s, t)
            IN  /\ ViewReadable(view.x, s) /\ ViewReadable(view.y, s) /\ ViewReadable(view.z, s)
                /\ \A i \in SimdSamples(s) :
                    /\ ViewEntry(view.x, i) = m_default_scale[1]
                    /\ ViewEntry(view.y, i) = m_default_scale[2]
                    /\ ViewEntry(view.z, i) = m_default_scale[3]

\* C9 as the code has it: without scale, get_scales sets its three out pointers to
\* null, for every segment and transform: there is no view to read.
C9_NullScaleViewWithoutScale ==
    (pc = "live" /\ ~m_has_scale) =>
        \A s \in DOMAIN segments, t \in Transforms :
            get_scales(s, t) = [x |-> nullptr, y |-> nullptr, z |-> nullptr]

\* a database without scale of two segments and two transforms, asked for the scales
\* of its last transform in its last segment
C9_Witness ==
    /\ pc = "live" /\ ~m_has_scale
    /\ NumSegments = 2 /\ m_num_transforms = 2
    /\ get_scales(1, 1).x = nullptr

\* C10: without scale, set_scale changes no byte of the buffer, no range descriptor
\* and no format field, whatever its arguments.
C10_SetScaleIsNoOpWithoutScale ==
    [][(num_ops' = num_ops + 1 /\ last'.op = "set_scale" /\ ~m_has_scale) =>
        /\ m_data' = m_data
        /\ m_data_size' = m_data_size
        /\ m_ranges' = m_ranges
        /\ m_rotation_format' = m_rotation_format
        /\ m_translation_format' = m_translation_format
        /\ m_scale_format' = m_scale_format]_vars

\* set_scale was called with a scale that is not the default on a database without scale
C10_Witness ==
    /\ pc = "live" /\ ~m_has_scale
    /\ last.op = "set_scale"
    /\ last.value \in WriteValues
    /\ num_ops >= 1

-----------------------------------------------------------------------------
(* Sampling (acl/compression/stream/sample_streams.h), database overloads.
   The floats the sampling functions compute with are exact rationals [n, d],
   d > 0, in lowest terms; float rounding is not modelled. *)

RECURSIVE GCD(_, _)
GCD(a, b) == IF b = 0 THEN a ELSE GCD(b, a % b)

Abs(x) == IF x < 0 THEN 0 - x ELSE x

Q(n, d) ==
    LET g == GCD(Abs(n), Abs(d))
    IN  IF d < 0 THEN [n |-> 0 - (n \div g), d |-> 0 - (d \div g)]
                 ELSE [n |-> n \div g, d |-> d \div g]

QAdd(a, b) ==
    LET g == GCD(a.d, b.d)
    IN  Q(a.n * (b.d \div g) + b.n * (a.d \div g), (a.d \div g) * b.d)
QSub(a, b) == QAdd(a, [n |-> 0 - b.n, d |-> b.d])
QMul(a, b) ==
    LET g1 == GCD(Abs(a.n), b.d)
        g2 == GCD(Abs(b.n), a.d)
    IN  Q((a.n \div g1) * (b.n \div g2), (a.d \div g2) * (b.d \div g1))
QDiv(a, b) == Q(a.n * b.d, a.d * b.n)
QLess(a, b) == QSub(a, b).n < 0
QMin(a, b) == IF QLess(b, a) THEN b ELSE a

\* symmetric_round: to the nearest integer, halves away from zero
symmetric_round(a) ==
    IF a.n >= 0 THEN (2 * a.n + a.d) \div (2 * a.d)
    ELSE 0 - ((2 * (0 - a.n) + a.d) \div (2 * a.d))

\* a vector of floats from a vector of integers counted in 1/unit
VQ(vec, unit) == [k \in 1..4 |-> Q(vec[k], unit)]

vector_mul_add(v, mul, add) == [k \in 1..4 |-> QAdd(QMul(v[k], mul[k]), add[k])]

\* normalize_sample(sample, range_min, range_extent): (sample - min) / extent, at
\* most 1, and 0 where the extent is (next to) zero
normalize_sample(sample, range_min, range_extent) ==
    [k \in 1..4 |-> IF range_extent[k].n <= 0 THEN Q(0, 1)
                    ELSE QMin(QDiv(QSub(sample[k], range_min[k]), range_extent[k]), Q(1, 1))]

\* 2^n for the widths of k_bit_rate_num_bits
RECURSIVE Pow2(_)
Pow2(n) == IF n = 0 THEN 1 ELSE 2 * Pow2(n - 1)

\* pack_scalar_unsigned then unpack_scalar_unsigned at num_bits
decay_scalar_unsigned(a, num_bits) ==
    LET max_value == Pow2(num_bits) - 1
    IN  Q(symmetric_round(QMul(a, Q(max_value, 1))), max_value)

\* pack_scalar_signed then unpack_scalar_signed at num_bits
decay_scalar_signed(a, num_bits) ==
    QSub(QMul(decay_scalar_unsigned(QAdd(QMul(a, Q(1, 2)), Q(1, 2)), num_bits), Q(2, 1)), Q(1, 1))

\* decay_vector3_uXX / decay_vector3_sXX: x, y, z packed and unpacked, w = 0
decay_vector3_uXX(v, num_bits) ==
    [k \in 1..4 |-> IF k <= 3 THEN decay_scalar_unsigned(v[k], num_bits) ELSE Q(0, 1)]

decay_vector3_sXX(v, num_bits) ==
    [k \in 1..4 |-> IF k <= 3 THEN decay_scalar_signed(v[k], num_bits) ELSE Q(0, 1)]

decay_vector3_u48(v) == decay_vector3_uXX(v, 16)

\* the formats without a stored W
IsDropW(format) == format /= "Quat_128"

ISqrtExact(n) == \E r \in 0..n : r * r = n

\* +sqrt(a) for a >= 0: the rational when a is a square, and otherwise the term
\* "root of n/d", written [n, -d]
QSqrt(a) ==
    IF ISqrtExact(a.n) /\ ISqrtExact(a.d) THEN Q(ISqrt(a.n), ISqrt(a.d))
    ELSE [n |-> a.n, d |-> 0 - a.d]

\* the W that x, y, z determine where their squares are beyond the integers at hand
DerivedW == [n |-> 0, d |-> 0]

\* quat_from_positive_w: W = +sqrt(1 - x^2 - y^2 - z^2), 0 where that is not positive
quat_from_positive_w(v) ==
    LET small     == \A k \in 1..3 : v[k].d <= 4 /\ Abs(v[k].n) <= 64
        w_squared == QSub(Q(1, 1), QAdd(QMul(v[1], v[1]), QAdd(QMul(v[2], v[2]), QMul(v[3], v[3]))))
    IN  <<v[1], v[2], v[3],
          IF ~small THEN DerivedW ELSE IF w_squared.n > 0 THEN QSqrt(w_squared) ELSE Q(0, 1)>>

\* quat_ensure_positive_w
quat_ensure_positive_w(v) ==
    IF v[4].n < 0 THEN [k \in 1..4 |-> Q(0 - v[k].n, v[k].d)] ELSE v

\* convert_rotation(rotation, from, to), from being Quat_128
convert_rotation(rotation, from, to) ==
    IF IsDropW(to) THEN quat_ensure_positive_w(rotation) ELSE rotation

\* impl::rotation_to_quat_32
rotation_to_quat_32(rotation, format) ==
    IF IsDropW(format) THEN quat_from_positive_w(rotation) ELSE rotation

k_bit_rate_num_bits == <<0, 3, 4, 5, 6, 7, 8, 9, 10, 11, 12, 13, 14, 15, 16, 17, 18, 19, 32>>
k_highest_bit_rate == Len(k_bit_rate_num_bits) - 1
k_num_bit_rates == Len(k_bit_rate_num_bits)
k_invalid_bit_rate == 255
\* is_raw_bit_rate, had it taken the highest variable bit rate for the raw one
is_raw_bit_rate_below_highest(bit_rate) == bit_rate = k_highest_bit_rate - 1
\* the bit rate index taken for a number of bits
bit_rate_as_num_bits(bit_rate) == bit_rate

get_num_bits_at_bit_rate(bit_rate) == k_bit_rate_num_bits[bit_rate + 1]
is_constant_bit_rate(bit_rate) == bit_rate = 0
is_raw_bit_rate(bit_rate) == bit_rate = k_highest_bit_rate

-----------------------------------------------------------------------------
(* The two databases of a compression: the raw one is the database of the
   variables m_data ..; the mutable one, over the same clip and segments, is the
   record mutable_database, whose buffer holds rationals. *)

\* a float of the mutable buffer mem, or of what lies outside it
MutableLoad(mem, a) ==
    IF InBuffer(DataSizeBytes, a) THEN mem[a \div SizeofFloat] ELSE Q(Garbage(wild, a), 1)

\* vector_set(track_x[i], track_y[i], track_z[i], w-or-0) over the mutable buffer mem
MutableVector(mem, s, t, ch, i) ==
    [k \in 1..4 |-> IF k <= NumComponents(ch)
                    THEN MutableLoad(mem, ByteOffset(m_has_scale, segments[s], t, ch, k - 1, i))
                    ELSE Q(0, 1)]

\* database.get_rotation / get_translation / get_scale (ch), database: "raw" | "mutable"
database_get(database, ch, s, t, i) ==
    IF database = "raw" THEN VQ(GetChannel(ch, s, t, i), 1)
    ELSE IF ch = 2 /\ ~m_has_scale THEN VQ(m_default_scale, 1)
    ELSE MutableVector(mutable_database.m_data, s, t, ch, i)

\* database.get_range(transform_index)
database_get_range(database, t) ==
    IF database = "raw" THEN m_ranges[t] ELSE mutable_database.m_ranges[t]

database_get_rotation_format(database) ==
    IF database = "raw" THEN m_rotation_format ELSE mutable_database.m_rotation_format

\* vector_unaligned_load of a float[4], and of a float[3] (whose fourth lane, the
\* float after the array, no caller looks at: 0 here)
vector_unaligned_load(a) == [k \in 1..4 |-> IF k <= Len(a) THEN a[k] ELSE Q(0, 1)]

\* acl_impl::get_rotation_sample(database, segment, transform_index, sample_index)
get_rotation_sample(database, s, t, i) ==
    LET format                  == database_get_rotation_format(database)
        clip_transform_range    == database_get_range(database, t)
        segment_transform_range == segments[s].ranges[t]
        stored                  == database_get(database, 0, s, t, i)
        in_segment == IF segment_transform_range.are_rotations_normalized
                      THEN vector_mul_add(stored, vector_unaligned_load(segment_transform_range.rotation_extent),
                                          vector_unaligned_load(segment_transform_range.rotation_min))
                      ELSE stored
        in_clip    == IF clip_transform_range.are_rotations_normalized
                      THEN vector_mul_add(in_segment, vector_unaligned_load(clip_transform_range.rotation_extent),
                                          vector_unaligned_load(clip_transform_range.rotation_min))
                      ELSE in_segment
    IN  rotation_to_quat_32(in_clip, format)

\* acl_impl::get_translation_sample(database, segment, transform_index, sample_index)
get_translation_sample(database, s, t, i) ==
    LET clip_transform_range    == database_get_range(database, t)
        segment_transform_range == segments[s].ranges[t]
        stored                  == database_get(database, 1, s, t, i)
        in_segment == IF segment_transform_range.are_translations_normalized
                      THEN vector_mul_add(stored, vector_unaligned_load(segment_transform_range.translation_extent),
                                          vector_unaligned_load(segment_transform_range.translation_min))
                      ELSE stored
    IN  IF clip_transform_range.are_translations_normalized
        THEN vector_mul_add(in_segment, vector_unaligned_load(clip_transform_range.translation_extent),
                            vector_unaligned_load(clip_transform_range.translation_min))
        ELSE in_segment

\* acl_impl::get_scale_sample(database, segment, transform_index, sample_index):
\* Vector4_32 scale = database.get_translation(segment, transform_index, sample_index)
get_scale_sample(database, s, t, i) ==
    LET clip_transform_range    == database_get_range(database, t)
        segment_transform_range == segments[s].ranges[t]
        stored                  == database_get(database, 1, s, t, i)
        in_segment == IF segment_transform_range.are_scales_normalized
                      THEN vector_mul_add(stored, vector_unaligned_load(segment_transform_range.scale_extent),
                                          vector_unaligned_load(segment_transform_range.scale_min))
                      ELSE stored
    IN  IF clip_transform_range.are_scales_normalized
        THEN vector_mul_add(in_segment, vector_unaligned_load(clip_transform_range.scale_extent),
                            vector_unaligned_load(clip_transform_range.scale_min))
        ELSE in_segment

\* get_decayed_rotation_sample, had its constant path applied the segment range
get_decayed_rotation_sample_in_segment(s, t, i, desired_bit_rate) ==
    LET mutable_format          == database_get_rotation_format("mutable")
        clip_transform_range    == database_get_range("mutable", t)
        segment_transform_range == segments[s].ranges[t]
        clip_range_min          == vector_unaligned_load(clip_transform_range.rotation_min)
        clip_range_extent       == vector_unaligned_load(clip_transform_range.rotation_extent)
        rotation == convert_rotation(database_get("raw", 0, s, t, 0), "Quat_128", mutable_format)
        packed   == decay_vector3_u48(normalize_sample(rotation, clip_range_min, clip_range_extent))
        in_segment == vector_mul_add(packed, vector_unaligned_load(segment_transform_range.rotation_extent),
                                     vector_unaligned_load(segment_transform_range.rotation_min))
    IN  rotation_to_quat_32(vector_mul_add(in_segment, clip_range_extent, clip_range_min), mutable_format)

\* acl_impl::get_decayed_rotation_sample(raw_database, mutable_database, segment,
\* transform_index, sample_index, desired_bit_rate)
get_decayed_rotation_sample(s, t, i, desired_bit_rate) ==
    LET raw_format              == database_get_rotation_format("raw")
        mutable_format          == database_get_rotation_format("mutable")
        clip_transform_range    == database_get_range("mutable", t)
        segment_transform_range == segments[s].ranges[t]
        clip_range_min          == vector_unaligned_load(clip_transform_range.rotation_min)
        clip_range_extent       == vector_unaligned_load(clip_transform_range.rotation_extent)
        packed ==
            IF is_constant_bit_rate(desired_bit_rate)
            THEN LET rotation == convert_rotation(database_get("raw", 0, s, t, 0), raw_format, mutable_format)
                 IN  [v |-> decay_vector3_u48(normalize_sample(rotation, clip_range_min, clip_range_extent)),
                      is_clip_normalized    |-> clip_transform_range.are_rotations_normalized,
                      is_segment_normalized |-> FALSE]
            ELSE IF is_raw_bit_rate(desired_bit_rate)
            THEN [v |-> convert_rotation(database_get("raw", 0, s, t, i), raw_format, mutable_format),
                  is_clip_normalized |-> FALSE, is_segment_normalized |-> FALSE]
            ELSE LET num_bits_at_bit_rate == get_num_bits_at_bit_rate(desired_bit_rate)
                     rotation             == database_get("mutable", 0, s, t, i)
                 IN  [v |-> IF clip_transform_range.are_rotations_normalized
                            THEN decay_vector3_uXX(rotation, num_bits_at_bit_rate)
                            ELSE decay_vector3_sXX(rotation, num_bits_at_bit_rate),
                      is_clip_normalized    |-> clip_transform_range.are_rotations_normalized,
                      is_segment_normalized |-> segment_transform_range.are_rotations_normalized]
        in_segment == IF packed.is_segment_normalized
                      THEN vector_mul_add(packed.v, vector_unaligned_load(segment_transform_range.rotation_extent),
                                          vector_unaligned_load(segment_transform_range.rotation_min))
                      ELSE packed.v
        in_clip    == IF packed.is_clip_normalized
                      THEN vector_mul_add(in_segment, clip_range_extent, clip_range_min)
                      ELSE in_segment
    IN  rotation_to_quat_32(in_clip, mutable_format)

\* the ACL_ASSERTs on the path of that call hold
get_decayed_rotation_sample_asserts(s, t, i, desired_bit_rate) ==
    is_constant_bit_rate(desired_bit_rate) =>
        /\ database_get_range("mutable", t).are_rotations_normalized
        /\ segments[s].ranges[t].are_rotations_normalized

\* the ACL_ASSERTs of get_decayed_translation_sample, had it asserted on its
\* constant path only, as get_decayed_rotation_sample does
get_decayed_translation_sample_asserts_when_constant(s, t, i, desired_bit_rate) ==
    is_constant_bit_rate(desired_bit_rate) =>
        /\ database_get_range("mutable", t).are_translations_normalized
        /\ segments[s].ranges[t].are_translations_normalized

\* get_decayed_translation_sample, had its constant path read the sample asked for
get_decayed_translation_sample_at_index(s, t, i, desired_bit_rate) ==
    LET clip_transform_range == database_get_range("mutable", t)
        clip_range_min       == vector_unaligned_load(clip_transform_range.translation_min)
        clip_range_extent    == vector_unaligned_load(clip_transform_range.translation_extent)
        translation          == database_get("raw", 1, s, t, i)
    IN  IF is_constant_bit_rate(desired_bit_rate)
        THEN vector_mul_add(decay_vector3_u48(normalize_sample(translation, clip_range_min, clip_range_extent)),
                            clip_range_extent, clip_range_min)
        ELSE translation

\* acl_impl::get_decayed_translation_sample(raw_database, mutable_database, segment,
\* transform_index, sample_index, desired_bit_rate)
get_decayed_translation_sample(s, t, i, desired_bit_rate) ==
    LET clip_transform_range    == database_get_range("mutable", t)
        segment_transform_range == segments[s].ranges[t]
        clip_range_min          == vector_unaligned_load(clip_transform_range.translation_min)
        clip_range_extent       == vector_unaligned_load(clip_transform_range.translation_extent)
        packed ==
            IF is_constant_bit_rate(desired_bit_rate)
            THEN LET translation == database_get("raw", 1, s, t, 0)
                 IN  [v |-> decay_vector3_u48(normalize_sample(translation, clip_range_min, clip_range_extent)),
                      is_clip_normalized    |-> clip_transform_range.are_translations_normalized,
                      is_segment_normalized |-> FALSE]
            ELSE IF is_raw_bit_rate(desired_bit_rate)
            THEN [v |-> database_get("raw", 1, s, t, i),
                  is_clip_normalized |-> FALSE, is_segment_normalized |-> FALSE]
            ELSE LET num_bits_at_bit_rate == get_num_bits_at_bit_rate(desired_bit_rate)
                     translation          == database_get("mutable", 1, s, t, i)
                 IN  [v |-> decay_vector3_uXX(translation, num_bits_at_bit_rate),
                      is_clip_normalized    |-> clip_transform_range.are_translations_normalized,
                      is_segment_normalized |-> segment_transform_range.are_translations_normalized]
        in_segment == IF packed.is_segment_normalized
                      THEN vector_mul_add(packed.v, vector_unaligned_load(segment_transform_range.translation_extent),
                                          vector_unaligned_load(segment_transform_range.translation_min))
                      ELSE packed.v
    IN  IF packed.is_clip_normalized
        THEN vector_mul_add(in_segment, clip_range_extent, clip_range_min)
        ELSE in_segment

get_decayed_translation_sample_asserts(s, t, i, desired_bit_rate) ==
    /\ database_get_range("mutable", t).are_translations_normalized
    /\ is_constant_bit_rate(desired_bit_rate) => segments[s].ranges[t].are_translations_normalized

\* get_decayed_scale_sample, had its raw path applied the clip range
get_decayed_scale_sample_in_clip(s, t, i, desired_bit_rate) ==
    LET clip_transform_range == database_get_range("mutable", t)
    IN  vector_mul_add(database_get("raw", 2, s, t, i), vector_unaligned_load(clip_transform_range.scale_extent),
                       vector_unaligned_load(clip_transform_range.scale_min))

\* acl_impl::get_decayed_scale_sample(raw_database, mutable_database, segment,
\* transform_index, sample_index, desired_bit_rate); in its last branch
\*     is_clip_normalized = clip_transform_range.are_translations_normalized;
\*     is_segment_normalized = segment_transform_range.are_translations_normalized;
get_decayed_scale_sample(s, t, i, desired_bit_rate) ==
    LET clip_transform_range    == database_get_range("mutable", t)
        segment_transform_range == segments[s].ranges[t]
        clip_range_min          == vector_unaligned_load(clip_transform_range.scale_min)
        clip_range_extent       == vector_unaligned_load(clip_transform_range.scale_extent)
        packed ==
            IF is_constant_bit_rate(desired_bit_rate)
            THEN LET scale == database_get("raw", 2, s, t, 0)
                 IN  [v |-> decay_vector3_u48(normalize_sample(scale, clip_range_min, clip_range_extent)),
                      is_clip_normalized    |-> clip_transform_range.are_scales_normalized,
                      is_segment_normalized |-> FALSE]
            ELSE IF is_raw_bit_rate(desired_bit_rate)
            THEN [v |-> database_get("raw", 2, s, t, i),
                  is_clip_normalized |-> FALSE, is_segment_normalized |-> FALSE]
            ELSE LET num_bits_at_bit_rate == get_num_bits_at_bit_rate(desired_bit_rate)
                     scale                == database_get("mutable", 2, s, t, i)
                 IN  [v |-> decay_vector3_uXX(scale, num_bits_at_bit_rate),
                      is_clip_normalized    |-> clip_transform_range.are_translations_normalized,
                      is_segment_normalized |-> segment_transform_range.are_translations_normalized]
        in_segment == IF packed.is_segment_normalized
                      THEN vector_mul_add(packed.v, vector_unaligned_load(segment_transform_range.scale_extent),
                                          vector_unaligned_load(segment_transform_range.scale_min))
                      ELSE packed.v
    IN  IF packed.is_clip_normalized
        THEN vector_mul_add(in_segment, clip_range_extent, clip_range_min)
        ELSE in_segment

get_decayed_scale_sample_asserts(s, t, i, desired_bit_rate) ==
    /\ database_get_range("mutable", t).are_scales_normalized
    /\ is_constant_bit_rate(desired_bit_rate) => segments[s].ranges[t].are_scales_normalized

-----------------------------------------------------------------------------
(* The compression driver around the two databases: it creates the mutable
   database from the raw one, then runs the clip-range pass, then the
   segment-range pass.  mutable_database.stage is how far it has come:
   "none" | "created" | "clip" | "segment". *)

\* the range descriptors as allocated, in floats
FloatRanges ==
    [rotation_min    |-> VQ(<<0, 0, 0, 0>>, 1), rotation_max |-> VQ(<<0, 0, 0, 0>>, 1),
     rotation_extent |-> VQ(<<0, 0, 0, 0>>, 1),
     translation_min |-> <<Q(0, 1), Q(0, 1), Q(0, 1)>>, translation_max |-> <<Q(0, 1), Q(0, 1), Q(0, 1)>>,
     translation_extent |-> <<Q(0, 1), Q(0, 1), Q(0, 1)>>,
     scale_min       |-> <<Q(0, 1), Q(0, 1), Q(0, 1)>>, scale_max |-> <<Q(0, 1), Q(0, 1), Q(0, 1)>>,
     scale_extent    |-> <<Q(0, 1), Q(0, 1), Q(0, 1)>>,
     is_rotation_constant    |-> FALSE, is_rotation_default    |-> FALSE,
     is_translation_constant |-> FALSE, is_translation_default |-> FALSE,
     is_scale_constant       |-> FALSE, is_scale_default       |-> FALSE,
     are_rotations_normalized |-> FALSE, are_translations_normalized |-> FALSE,
     are_scales_normalized    |-> FALSE]

QMinOf(S) == CHOOSE x \in S : \A y \in S : ~QLess(y, x)
QMaxOf(S) == CHOOSE x \in S : \A y \in S : ~QLess(x, y)

\* the identity of a channel
ChannelIdentity(ch) ==
    CASE ch = 0 -> VQ(<<0, 0, 0, 1>>, 1)
      [] ch = 1 -> VQ(<<0, 0, 0, 0>>, 1)
      [] ch = 2 -> VQ(m_default_scale, 1)

\* compute_from_samples over the run of samples `vectors` of channel ch
ChannelRange(vectors, ch) ==
    LET K      == 1..NumComponents(ch)
        min    == [k \in K |-> QMinOf({v[k] : v \in vectors})]
        max    == [k \in K |-> QMaxOf({v[k] : v \in vectors})]
        extent == [k \in K |-> QSub(max[k], min[k])]
        is_constant == \A k \in K : extent[k].n = 0
    IN  [min |-> min, max |-> max, extent |-> extent, is_constant |-> is_constant,
         is_default |-> is_constant /\ \A k \in K : min[k] = ChannelIdentity(ch)[k]]

\* a range descriptor from the ranges r[ch] of its three channels and the
\* channels n whose samples are rewritten against them
RangesOf(r, n) ==
    [rotation_min    |-> r[0].min, rotation_max    |-> r[0].max, rotation_extent    |-> r[0].extent,
     translation_min |-> r[1].min, translation_max |-> r[1].max, translation_extent |-> r[1].extent,
     scale_min       |-> r[2].min, scale_max       |-> r[2].max, scale_extent       |-> r[2].extent,
     is_rotation_constant    |-> r[0].is_constant, is_rotation_default    |-> r[0].is_default,
     is_translation_constant |-> r[1].is_constant, is_translation_default |-> r[1].is_default,
     is_scale_constant       |-> r[2].is_constant, is_scale_default       |-> r[2].is_default,
     are_rotations_normalized |-> 0 \in n, are_translations_normalized |-> 1 \in n,
     are_scales_normalized    |-> 2 \in n]

FirstComponent(ch) == CASE ch = 0 -> 0 [] ch = 1 -> 4 [] ch = 2 -> 7

\* the slots of channel ch of one transform of segment s, padding included
ChannelSlots(s, ch) ==
    (FirstComponent(ch)..(FirstComponent(ch) + NumComponents(ch) - 1)) \X SimdSamples(s)

\* normalize_inplace: every sample of channel ch of (segment s, transform t)
\* rewritten to (x - min) / extent
NormalizeChannel(mem, s, t, ch, range) ==
    LET W     == ChannelSlots(s, ch)
        value == [w \in W |->
                    normalize_sample(MutableVector(mem, s, t, ch, w[2]), vector_unaligned_load(range.min),
                                     vector_unaligned_load(range.extent))[ComponentOf(w[1]) + 1]]
    IN  StoreAll(mem, [hs |-> m_has_scale], segments[s], t, W, value)

\* the channels in segment-major, then transform-major order: the n-th is
ChannelAt(n) == <<n \div (3 * m_num_transforms), (n \div 3) % m_num_transforms, n % 3>>

\* normalize_inplace over the channels `chosen`, each against range[channel]
RECURSIVE NormalizePass(_, _, _, _)
NormalizePass(mem, n, chosen, range) ==
    IF n >= 3 * m_num_transforms * NumSegments THEN mem
    ELSE LET e == ChannelAt(n)
         IN  NormalizePass(IF e \in chosen THEN NormalizeChannel(mem, e[1], e[2], e[3], range[e]) ELSE mem,
                           n + 1, chosen, range)

\* every rotation of (segment s, transform t) converted from Quat_128 to format
ConvertRotations(mem, s, t, format) ==
    LET W     == ChannelSlots(s, 0)
        value == [w \in W |->
                    convert_rotation(MutableVector(mem, s, t, 0, w[2]), "Quat_128", format)[ComponentOf(w[1]) + 1]]
    IN  StoreAll(mem, [hs |-> m_has_scale], segments[s], t, W, value)

RECURSIVE ConvertPass(_, _, _)
ConvertPass(mem, n, format) ==
    IF n >= 3 * m_num_transforms * NumSegments THEN mem
    ELSE LET e == ChannelAt(n)
         IN  ConvertPass(IF e[3] = 0 THEN ConvertRotations(mem, e[1], e[2], format) ELSE mem, n + 1, format)

\* what the driver leaves alone
DriverFrame ==
    UNCHANGED <<pc, clip, m_has_scale, m_num_transforms, m_num_samples_per_track, track_vars,
                m_default_scale, m_rotation_format, m_translation_format, m_scale_format,
                m_ranges, m_data, m_data_size, wild, last, accesses, num_ops, dealloc_size,
                m_skeleton, has_assert_checks, sampled>>

\* the mutable database: a copy of the raw one, its rotations in `format`
CreateMutableDatabase(format) ==
    /\ pc = "live"
    /\ sampled = NoSample
    /\ mutable_database.stage = "none"
    /\ mutable_database' =
        [stage    |-> "created",
         m_data   |-> ConvertPass([a \in DOMAIN m_data |-> Q(m_data[a], 1)], 0, format),
         m_ranges |-> [t \in Transforms |-> FloatRanges],
         m_rotation_format |-> format]
    /\ UNCHANGED segments
    /\ DriverFrame

\* the sets of channels a pass may be asked to reduce the range of
RangeReductions == {{0, 1, 2}, {1}, {0, 2}}

\* Clip-range pass over the channels range_reduction: clip-wide ranges from the
\* raw database, the samples of the mutable database rewritten against them
ClipRangePass(range_reduction) ==
    LET range == [e \in (DOMAIN segments) \X Transforms \X (0..2) |->
                    ChannelRange(UNION {{database_get("raw", e[3], s, e[2], i) : i \in Samples(s)} :
                                            s \in DOMAIN segments},
                                 e[3])]
        chosen == {e \in DOMAIN range :
                    e[3] \in range_reduction /\ ~range[e].is_constant /\ (e[3] = 2 => m_has_scale)}
    IN  /\ pc = "live"
        /\ sampled = NoSample
        /\ mutable_database.stage = "created"
        /\ mutable_database' =
            [mutable_database EXCEPT
                !.stage    = "clip",
                !.m_data   = NormalizePass(@, 0, chosen, range),
                !.m_ranges = [t \in Transforms |->
                                RangesOf([ch \in 0..2 |-> range[<<0, t, ch>>]],
                                         {ch \in 0..2 : <<0, t, ch>> \in chosen})]]
        /\ UNCHANGED segments
        /\ DriverFrame

\* the clip range of channel ch of transform t is marked normalized
ClipNormalized(t, ch) ==
    CASE ch = 0 -> mutable_database.m_ranges[t].are_rotations_normalized
      [] ch = 1 -> mutable_database.m_ranges[t].are_translations_normalized
      [] ch = 2 -> mutable_database.m_ranges[t].are_scales_normalized

\* Segment-range pass over the channels range_reduction: every segment's ranges
\* from the clip-normalized mutable database, its samples rewritten against them
SegmentRangePass(range_reduction) ==
    LET range == [e \in (DOMAIN segments) \X Transforms \X (0..2) |->
                    ChannelRange({database_get("mutable", e[3], e[1], e[2], i) : i \in Samples(e[1])}, e[3])]
        chosen == {e \in DOMAIN range :
                    e[3] \in range_reduction /\ ClipNormalized(e[2], e[3]) /\ ~range[e].is_constant}
    IN  /\ pc = "live"
        /\ sampled = NoSample
        /\ mutable_database.stage = "clip"
        /\ mutable_database' =
            [mutable_database EXCEPT
                !.stage  = "segment",
                !.m_data = NormalizePass(@, 0, chosen, range)]
        /\ segments' =
            [s \in DOMAIN segments |->
                [segments[s] EXCEPT
                    !.ranges = [t \in Transforms |->
                                    RangesOf([ch \in 0..2 |-> range[<<s, t, ch>>]],
                                             {ch \in 0..2 : <<s, t, ch>> \in chosen})],
                    !.are_rotations_normalized    = 0 \in range_reduction,
                    !.are_translations_normalized = 1 \in range_reduction,
                    !.are_scales_normalized       = 2 \in range_reduction]]
        /\ DriverFrame

-----------------------------------------------------------------------------
(* Sampling a pose: sample_database, sample_database_hierarchical and
   sample_streams_hierarchical.  A sample_time is counted in samples of the clip
   (sample_time * sample_rate), and is whole. *)

\* k_invalid_bone_index, 0xFFFF
k_invalid_bone_index == 65535

\* a uint16_t read as a uint32_t
ZeroExtend16(x) == x % 65536

\* get_parent_index, had it returned the parent index as a uint8_t
get_parent_index_as_uint8(transform_index) == m_skeleton[transform_index] % 256

\* track_database::get_parent_index: m_skeleton.get_bones()[transform_index].parent_index
get_parent_index(transform_index) == ZeroExtend16(m_skeleton[transform_index])

\* find_linear_interpolation_samples_with_sample_rate at a whole sample_time:
\* key0 the sample at that time, key1 the one after, both within num_samples
find_linear_interpolation_samples(num_samples, sample_time) ==
    LET key0 == IF sample_time < num_samples THEN sample_time ELSE num_samples - 1
        key1 == IF key0 + 1 < num_samples THEN key0 + 1 ELSE num_samples - 1
    IN  [key0 |-> key0, key1 |-> key1, interpolation_alpha |-> Q(0, 1)]

\* a - b as uint32_t subtraction does it, for a and b below 2^31: below b it wraps
\* to 2^32 - (b - a)
SubU32(a, b) ==
    IF a >= b THEN ToU32(a - b)
    ELSE LET d == b - a
         IN  [hi |-> (Limb - (d \div Limb) - (IF d % Limb = 0 THEN 0 ELSE 1)) % Limb,
              lo |-> (Limb - (d % Limb)) % Limb]

\* a >= b between uint32_t values
GeqU32(a, b) == a.hi > b.hi \/ (a.hi = b.hi /\ a.lo >= b.lo)

\* acl_impl::get_uniform_sample_key after find_linear_interpolation_samples_with_sample_rate
\* has found key0, key1 and interpolation_alpha (0 or 1 under SampleRoundingPolicy::Nearest):
\*     key0 = key0 - segment_start_offset;
\*     if (key0 >= num_samples_per_track_in_segment) { key0 = 0; interpolation_alpha = 1.0f; }
\*     key1 = key1 - segment_start_offset;
\*     if (key1 >= num_samples_per_track_in_segment) { key1 = num_samples_per_track_in_segment - 1; interpolation_alpha = 0.0f; }
\*     return interpolation_alpha == 0.0f ? key0 : key1;
uniform_sample_key_of(found, num_samples_per_track_in_segment, segment_start_offset) ==
    LET k0    == SubU32(found.key0, segment_start_offset)
        k1    == SubU32(found.key1, segment_start_offset)
        out0  == GeqU32(k0, ToU32(num_samples_per_track_in_segment))
        out1  == GeqU32(k1, ToU32(num_samples_per_track_in_segment))
        key0  == IF out0 THEN 0 ELSE U32Value(k0)
        key1  == IF out1 THEN num_samples_per_track_in_segment - 1 ELSE U32Value(k1)
        interpolation_alpha == IF out1 THEN Q(0, 1) ELSE IF out0 THEN Q(1, 1) ELSE found.interpolation_alpha
    IN  IF interpolation_alpha = Q(0, 1) THEN key0 ELSE key1

\* acl_impl::get_uniform_sample_key at a whole sample_time
get_uniform_sample_key(num_samples_per_track_in_clip, num_samples_per_track_in_segment, segment_start_offset, sample_time) ==
    uniform_sample_key_of(find_linear_interpolation_samples(num_samples_per_track_in_clip, sample_time),
                          num_samples_per_track_in_segment, segment_start_offset)

\* a rotation left as the term that makes it: quat_normalize(a), quat_lerp(a, b, alpha)
\* or the quaternion a itself
RotationTerm(op, a, b, alpha) == [op |-> op, a |-> a, b |-> b, alpha |-> alpha]

vector_lerp(start, end, alpha) == [k \in 1..4 |-> QAdd(start[k], QMul(QSub(end[k], start[k]), alpha))]

\* context = [track_index, sample_key, sample_time]
\* acl_impl::sample_rotation<distribution>(context, database, segment)
sample_rotation(distribution, context, database, s) ==
    LET transform_range == database_get_range(database, context.track_index)
        keys == IF distribution = "Variable"
                THEN find_linear_interpolation_samples(segments[s].num_samples_per_track, context.sample_time)
                ELSE [key0 |-> context.sample_key, key1 |-> 0, interpolation_alpha |-> Q(0, 1)]
        sample0 == get_rotation_sample(database, s, context.track_index, keys.key0)
    IN  IF transform_range.is_rotation_default
        THEN RotationTerm("quat_identity", VQ(<<0, 0, 0, 1>>, 1), VQ(<<0, 0, 0, 1>>, 1), Q(0, 1))
        ELSE IF transform_range.is_rotation_constant
        THEN LET constant == get_rotation_sample(database, s, context.track_index, 0)
             IN  RotationTerm("quat_normalize", constant, constant, Q(0, 1))
        ELSE IF distribution = "Variable"
        THEN RotationTerm("quat_lerp", sample0, get_rotation_sample(database, s, context.track_index, keys.key1),
                          keys.interpolation_alpha)
        ELSE RotationTerm("quat_normalize", sample0, sample0, Q(0, 1))

\* acl_impl::sample_translation<distribution>(context, database, segment)
sample_translation(distribution, context, database, s) ==
    LET transform_range == database_get_range(database, context.track_index)
        keys == IF distribution = "Variable"
                THEN find_linear_interpolation_samples(segments[s].num_samples_per_track, context.sample_time)
                ELSE [key0 |-> context.sample_key, key1 |-> 0, interpolation_alpha |-> Q(0, 1)]
        sample0 == get_translation_sample(database, s, context.track_index, keys.key0)
    IN  IF transform_range.is_translation_default THEN VQ(<<0, 0, 0, 0>>, 1)
        ELSE IF transform_range.is_translation_constant
        THEN get_translation_sample(database, s, context.track_index, 0)
        ELSE IF distribution = "Variable"
        THEN vector_lerp(sample0, get_translation_sample(database, s, context.track_index, keys.key1),
                         keys.interpolation_alpha)
        ELSE sample0

\* acl_impl::sample_scale<distribution>(context, database, segment)
sample_scale(distribution, context, database, s) ==
    LET transform_range == database_get_range(database, context.track_index)
        keys == IF distribution = "Variable"
                THEN find_linear_interpolation_samples(segments[s].num_samples_per_track, context.sample_time)
                ELSE [key0 |-> context.sample_key, key1 |-> 0, interpolation_alpha |-> Q(0, 1)]
        sample0 == get_scale_sample(database, s, context.track_index, keys.key0)
    IN  IF transform_range.is_scale_default THEN VQ(m_default_scale, 1)
        ELSE IF transform_range.is_scale_constant
        THEN get_scale_sample(database, s, context.track_index, 0)
        ELSE IF distribution = "Variable"
        THEN vector_lerp(sample0, get_scale_sample(database, s, context.track_index, keys.key1),
                         keys.interpolation_alpha)
        ELSE sample0

\* context.sample_key as sample_database and sample_database_hierarchical set it
ContextSampleKey(s, sample_time) ==
    IF segments[s].distribution = "Uniform"
    THEN get_uniform_sample_key(m_num_samples_per_track, segments[s].num_samples_per_track,
                                segments[s].start_offset, sample_time)
    ELSE 0

\* out_local_pose[transform_index] = transform_set(rotation, translation, scale):
\* the store, as [index, value]
PoseStore(database, s, sample_time, transform_index) ==
    LET context == [track_index |-> transform_index, sample_key |-> ContextSampleKey(s, sample_time),
                    sample_time |-> sample_time]
        distribution == segments[s].distribution
    IN  [index |-> transform_index,
         value |-> [rotation    |-> sample_rotation(distribution, context, database, s),
                    translation |-> sample_translation(distribution, context, database, s),
                    scale       |-> sample_scale(distribution, context, database, s)]]

\* acl_impl::sample_database: the stores into out_local_pose, in order
sample_database(database, s, sample_time, transform_index) ==
    <<PoseStore(database, s, sample_time, transform_index)>>

\* the loop of sample_database_hierarchical may run longer than any skeleton is
\* deep; the model follows it for this many iterations
MaxWalk == 2 * MaxBones

\* while (current_transform_index != k_invalid_bone_index) { ...;
\*     current_transform_index = database.get_parent_index(current_transform_index); }
\* [writes: the stores so far, running: the loop has not left]
RECURSIVE HierarchicalWalk(_, _, _, _, _)
HierarchicalWalk(database, s, sample_time, current_transform_index, writes) ==
    IF current_transform_index = k_invalid_bone_index THEN [writes |-> writes, running |-> FALSE]
    ELSE IF Len(writes) >= MaxWalk \/ current_transform_index \notin DOMAIN m_skeleton
    THEN [writes |-> writes, running |-> TRUE]
    ELSE HierarchicalWalk(database, s, sample_time, get_parent_index(current_transform_index),
                          Append(writes, PoseStore(database, s, sample_time, current_transform_index)))

\* sample_database_hierarchical, had it sampled the target alone as sample_database does
sample_database_of_target(database, s, sample_time, target_transform_index) ==
    [writes |-> sample_database(database, s, sample_time, target_transform_index), running |-> FALSE]

\* acl_impl::sample_database_hierarchical
sample_database_hierarchical(database, s, sample_time, target_transform_index) ==
    HierarchicalWalk(database, s, sample_time, target_transform_index, <<>>)

\* BoneStreams of the segment, as far as sample_streams_hierarchical reads them:
\* bone_stream.parent_bone_index, and the transform its sample_* calls return at
\* the context's key and time
BoneStreamParent(bone_index) == m_skeleton[bone_index]

BoneStreamStore(s, sample_key, sample_time, bone_index) ==
    [index |-> bone_index,
     value |-> [bone |-> bone_index, sample_key |-> sample_key, sample_time |-> sample_time,
                distribution |-> segments[s].distribution]]

\* while (current_bone_index != k_invalid_bone_index) { ...;
\*     current_bone_index = bone_stream.parent_bone_index; }
RECURSIVE StreamsWalk(_, _, _, _, _)
StreamsWalk(s, sample_key, sample_time, current_bone_index, writes) ==
    IF current_bone_index = k_invalid_bone_index THEN [writes |-> writes, running |-> FALSE]
    ELSE IF Len(writes) >= MaxWalk \/ current_bone_index \notin DOMAIN m_skeleton
    THEN [writes |-> writes, running |-> TRUE]
    ELSE StreamsWalk(s, sample_key, sample_time, BoneStreamParent(current_bone_index),
                     Append(writes, BoneStreamStore(s, sample_key, sample_time, current_bone_index)))

\* sample_streams_hierarchical over the bone streams of segment s
sample_streams_hierarchical(s, sample_time, bone_index) ==
    StreamsWalk(s, ContextSampleKey(s, sample_time), sample_time, bone_index, <<>>)

-----------------------------------------------------------------------------
(* Calls of the sampling functions.  A call leaves in `sampled` what it was
   called with and what it returned; where an ACL_ASSERT on its path does not
   hold, a build with assertion checks aborts there and a build without them
   carries on. *)

\* the frame of a call that marked the segments' rotations normalized as it sampled
SamplingFrameMarking ==
    /\ segments' = [s \in DOMAIN segments |-> [segments[s] EXCEPT !.are_rotations_normalized = TRUE]]
    /\ UNCHANGED <<clip, m_has_scale, m_num_transforms, m_num_samples_per_track, track_vars,
                   m_default_scale, m_rotation_format, m_translation_format, m_scale_format,
                   m_ranges, m_data, m_data_size, wild, last, accesses, num_ops, dealloc_size,
                   mutable_database, m_skeleton, has_assert_checks>>

SamplingFrame ==
    UNCHANGED <<clip, segments, m_has_scale, m_num_transforms, m_num_samples_per_track, track_vars,
                m_default_scale, m_rotation_format, m_translation_format, m_scale_format,
                m_ranges, m_data, m_data_size, wild, last, accesses, num_ops, dealloc_size,
                mutable_database, m_skeleton, has_assert_checks>>

Sampled(fn, database, s, t, i, bit_rate, result, asserts_hold) ==
    LET aborts == has_assert_checks /\ ~asserts_hold
    IN  /\ sampled' = [fn |-> fn, database |-> database, segment |-> s, transform |-> t, sample |-> i,
                       bit_rate |-> bit_rate, result |-> IF aborts THEN <<>> ELSE result,
                       failed_assert |-> ~asserts_hold, writes |-> <<>>, returned |-> ~aborts]
        /\ pc' = IF aborts THEN "aborted" ELSE pc
        /\ SamplingFrame

\* the caller is between two calls, and the database `database` exists
CanSample(database) ==
    /\ pc = "live"
    /\ sampled = NoSample
    /\ database = "raw" \/ mutable_database.stage /= "none"

\* the caller is done with what the last call returned
DropSample ==
    /\ pc = "live"
    /\ sampled /= NoSample
    /\ sampled' = NoSample
    /\ UNCHANGED pc
    /\ SamplingFrame

\* ACL_ASSERT(format == Quat_128 || format == QuatDropW_96)
get_rotation_sample_asserts(database) ==
    database_get_rotation_format(database) \in {"Quat_128", "QuatDropW_96"}

CallGetRotationSample(database, s, t, i) ==
    /\ CanSample(database)
    /\ Sampled("get_rotation_sample", database, s, t, i, 0, get_rotation_sample(database, s, t, i),
               get_rotation_sample_asserts(database))

CallGetTranslationSample(database, s, t, i) ==
    /\ CanSample(database)
    /\ Sampled("get_translation_sample", database, s, t, i, 0, get_translation_sample(database, s, t, i),
               m_translation_format = "Vector3_96")

CallGetScaleSample(database, s, t, i) ==
    /\ CanSample(database)
    /\ Sampled("get_scale_sample", database, s, t, i, 0, get_scale_sample(database, s, t, i),
               m_scale_format = "Vector3_96")

CallGetDecayedRotationSample(s, t, i, bit_rate) ==
    /\ CanSample("mutable")
    /\ Sampled("get_decayed_rotation_sample", "mutable", s, t, i, bit_rate,
               get_decayed_rotation_sample(s, t, i, bit_rate),
               get_decayed_rotation_sample_asserts(s, t, i, bit_rate))

CallGetDecayedTranslationSample(s, t, i, bit_rate) ==
    /\ CanSample("mutable")
    /\ Sampled("get_decayed_translation_sample", "mutable", s, t, i, bit_rate,
               get_decayed_translation_sample(s, t, i, bit_rate),
               get_decayed_translation_sample_asserts(s, t, i, bit_rate))

CallGetDecayedScaleSample(s, t, i, bit_rate) ==
    /\ CanSample("mutable")
    /\ Sampled("get_decayed_scale_sample", "mutable", s, t, i, bit_rate,
               get_decayed_scale_sample(s, t, i, bit_rate),
               get_decayed_scale_sample_asserts(s, t, i, bit_rate))

\* the ACL_ASSERTs on the path of a pose: those of the get_*_sample it calls
sample_database_asserts(database) ==
    /\ get_rotation_sample_asserts(database)
    /\ m_translation_format = "Vector3_96"
    /\ m_scale_format = "Vector3_96"

\* a call that stores into out_local_pose: `walk` is what it stores and whether
\* its loop is still running when the model stops following it
PoseSampled(fn, database, s, t, sample_time, walk, asserts_hold) ==
    LET aborts == has_assert_checks /\ ~asserts_hold
    IN  /\ sampled' = [fn |-> fn, database |-> database, segment |-> s, transform |-> t,
                       sample |-> sample_time, bit_rate |-> 0, result |-> <<>>,
                       failed_assert |-> ~asserts_hold,
                       writes |-> IF aborts THEN <<>> ELSE walk.writes,
                       returned |-> ~aborts /\ ~walk.running]
        /\ pc' = IF aborts THEN "aborted" ELSE IF walk.running THEN "looping" ELSE pc
        /\ SamplingFrame

CallSampleDatabase(database, s, sample_time, transform_index) ==
    /\ CanSample(database)
    /\ PoseSampled("sample_database", database, s, transform_index, sample_time,
                   [writes |-> sample_database(database, s, sample_time, transform_index), running |-> FALSE],
                   sample_database_asserts(database))

CallSampleDatabaseHierarchical(database, s, sample_time, target_transform_index) ==
    /\ CanSample(database)
    /\ PoseSampled("sample_database_hierarchical", database, s, target_transform_index, sample_time,
                   sample_database_hierarchical(database, s, sample_time, target_transform_index),
                   sample_database_asserts(database))

CallSampleStreamsHierarchical(s, sample_time, bone_index) ==
    /\ CanSample("raw")
    /\ PoseSampled("sample_streams_hierarchical", "streams", s, bone_index, sample_time,
                   sample_streams_hierarchical(s, sample_time, bone_index), TRUE)

\* the sample times poses are asked at: the first and the last sample of the clip
PoseTimes == {0, m_num_samples_per_track - 1}

\* the bit rates the decayed samples are asked at: constant, the lowest, the one
\* of 10 bits, the highest variable one, raw
SampledBitRates == {0, 1, 8, k_highest_bit_rate - 1, k_highest_bit_rate}

\* the sample indices the sampling functions are called with: the last of the
\* segment, and at the constant bit rate the first as well
SampledIndices(s, bit_rate) ==
    {segments[s].num_samples_per_track - 1} \cup (IF is_constant_bit_rate(bit_rate) THEN {0} ELSE {})

\* what the driver writes into the raw database before the mutable one exists
DriverWrite == <<2, 1, 0, 0>>

\* the segments of the clip with their range descriptors
WithRanges(segs, T) ==
    [s \in DOMAIN segs |->
        segs[s] @@ [ranges |-> [t \in 0..(T - 1) |-> FloatRanges], distribution |-> "Uniform",
                    are_rotations_normalized |-> FALSE, are_translations_normalized |-> FALSE,
                    are_scales_normalized |-> FALSE]]

\* the skeleton of T bones where each bone hangs off the one before it
ChainSkeleton(T) == [t \in 0..(T - 1) |-> IF t = 0 THEN k_invalid_bone_index ELSE t - 1]

\* the raw database over a small clip of two segments, before the mutable one
InitSample ==
    \E T \in 1..MaxTransforms, hs \in BOOLEAN, seed \in SmallClipSeeds, g \in {1},
       checks \in BOOLEAN :
        /\ Constructed([num_samples |-> MaxClipSamples, num_bones |-> T, has_scale |-> hs,
                        additive_format |-> "None", seed |-> seed],
                       WithRanges(MakeSegments(SegmentCounts(MaxClipSamples, SegmentMaxSamples), T, hs), T), g)
        /\ mutable_database = NoDatabase
        /\ m_skeleton = ChainSkeleton(T)
        /\ has_assert_checks = checks
        /\ sampled = NoSample

NextSample ==
    \/ /\ CanCall
       /\ mutable_database.stage = "none"
       /\ sampled = NoSample
       /\ set_translation(DriverWrite, NumSegments - 1, 0, 0)
    \/ \E format \in {"Quat_128", "QuatDropW_96"} : CreateMutableDatabase(format)
    \/ \E range_reduction \in RangeReductions : ClipRangePass(range_reduction)
    \/ \E range_reduction \in RangeReductions : SegmentRangePass(range_reduction)
    \/ \E database \in {"raw", "mutable"}, s \in DOMAIN segments, t \in Transforms :
        \E i \in SampledIndices(s, 1) : CallGetRotationSample(database, s, t, i)
    \/ \E database \in {"raw", "mutable"}, s \in DOMAIN segments, t \in Transforms :
        \E i \in SampledIndices(s, 1) : CallGetTranslationSample(database, s, t, i)
    \/ \E database \in {"raw", "mutable"}, s \in DOMAIN segments, t \in Transforms :
        \E i \in SampledIndices(s, 1) : CallGetScaleSample(database, s, t, i)
    \/ \E s \in DOMAIN segments, t \in Transforms, bit_rate \in SampledBitRates :
        \E i \in SampledIndices(s, bit_rate) : CallGetDecayedRotationSample(s, t, i, bit_rate)
    \/ \E s \in DOMAIN segments, t \in Transforms, bit_rate \in SampledBitRates :
        \E i \in SampledIndices(s, bit_rate) : CallGetDecayedTranslationSample(s, t, i, bit_rate)
    \/ \E s \in DOMAIN segments, t \in Transforms, bit_rate \in SampledBitRates :
        \E i \in SampledIndices(s, bit_rate) : CallGetDecayedScaleSample(s, t, i, bit_rate)
    \/ \E database \in {"raw", "mutable"}, s \in DOMAIN segments :
        CallSampleDatabase(database, s, m_num_samples_per_track - 1, m_num_transforms - 1)
    \/ \E database \in {"raw", "mutable"}, s \in DOMAIN segments :
        CallSampleDatabaseHierarchical(database, s, m_num_samples_per_track - 1, m_num_transforms - 1)
    \/ DropSample

SpecSample == InitSample /\ [][NextSample]_vars

\* the skeletons of T bones: the parent of a bone is a bone before it, or none
Skeletons(T) ==
    {sk \in [0..(T - 1) -> {k_invalid_bone_index} \cup 0..(T - 1)] :
        \A t \in 0..(T - 1) : sk[t] = k_invalid_bone_index \/ sk[t] < t}

\* the segments, all of one sample distribution
WithDistribution(segs, distribution) ==
    [s \in DOMAIN segs |-> [segs[s] EXCEPT !.distribution = distribution]]

\* the databases of a clip over a skeleton of up to MaxBones bones
InitPose ==
    \E T \in 1..MaxBones, hs \in BOOLEAN, seed \in SmallClipSeeds,
       distribution \in {"Uniform", "Variable"} :
        \E skeleton \in Skeletons(T) :
            /\ Constructed([num_samples |-> MaxClipSamples, num_bones |-> T, has_scale |-> hs,
                            additive_format |-> "None", seed |-> seed],
                           WithDistribution(
                               WithRanges(MakeSegments(SegmentCounts(MaxClipSamples, SegmentMaxSamples), T, hs), T),
                               distribution), 1)
            /\ mutable_database = NoDatabase
            /\ m_skeleton = skeleton
            /\ has_assert_checks = TRUE
            /\ sampled = NoSample

NextPose ==
    \/ CreateMutableDatabase("Quat_128")
    \/ ClipRangePass({0, 1, 2})
    \/ \E database \in {"raw", "mutable"}, s \in DOMAIN segments, sample_time \in PoseTimes :
        CallSampleDatabase(database, s, sample_time, m_num_transforms - 1)
    \/ \E database \in {"raw", "mutable"}, s \in DOMAIN segments, sample_time \in PoseTimes, t \in Transforms :
        CallSampleDatabaseHierarchical(database, s, sample_time, t)
    \/ \E s \in DOMAIN segments, sample_time \in PoseTimes, t \in Transforms :
        CallSampleStreamsHierarchical(s, sample_time, t)
    \/ DropSample

SpecPose == InitPose /\ [][NextPose]_vars

-----------------------------------------------------------------------------
(* C11..C18: the sampling functions over the databases *)

DecayedFns == {"get_decayed_rotation_sample", "get_decayed_translation_sample", "get_decayed_scale_sample"}
NormalizedFns == {"get_rotation_sample", "get_translation_sample", "get_scale_sample"}

\* the channel a sampling function is about
FnChannel(fn) ==
    CASE fn \in {"get_rotation_sample", "get_decayed_rotation_sample"} -> 0
      [] fn \in {"get_translation_sample", "get_decayed_translation_sample"} -> 1
      [] fn \in {"get_scale_sample", "get_decayed_scale_sample"} -> 2

\* min and extent of channel ch in a range descriptor, as four lanes
RangeMin(range, ch) ==
    vector_unaligned_load(CASE ch = 0 -> range.rotation_min [] ch = 1 -> range.translation_min
                            [] ch = 2 -> range.scale_min)
RangeExtent(range, ch) ==
    vector_unaligned_load(CASE ch = 0 -> range.rotation_extent [] ch = 1 -> range.translation_extent
                            [] ch = 2 -> range.scale_extent)

\* the segment range of channel ch of transform t is marked normalized
SegmentNormalized(s, t, ch) ==
    CASE ch = 0 -> segments[s].ranges[t].are_rotations_normalized
      [] ch = 1 -> segments[s].ranges[t].are_translations_normalized
      [] ch = 2 -> segments[s].ranges[t].are_scales_normalized

\* the decayed sample of channel ch, by the function of that channel
DecayedSample(ch, s, t, i, bit_rate) ==
    CASE ch = 0 -> get_decayed_rotation_sample(s, t, i, bit_rate)
      [] ch = 1 -> get_decayed_translation_sample(s, t, i, bit_rate)
      [] ch = 2 -> get_decayed_scale_sample(s, t, i, bit_rate)

\* a raw-database sample in the mutable database's format
RawConverted(ch, s, t, i) ==
    IF ch = 0 THEN convert_rotation(database_get("raw", 0, s, t, i), m_rotation_format,
                                    mutable_database.m_rotation_format)
    ELSE database_get("raw", ch, s, t, i)

\* a value of channel ch as the function of that channel returns it
Returned(ch, v) == IF ch = 0 THEN rotation_to_quat_32(v, mutable_database.m_rotation_format) ELSE v

\* raw sample 0 of the segment, normalized against the clip range, through 16 bits
\* a component, the clip range applied
ConstantSample(ch, s, t) ==
    LET range  == mutable_database.m_ranges[t]
        packed == normalize_sample(RawConverted(ch, s, t, 0), RangeMin(range, ch), RangeExtent(range, ch))
    IN  Returned(ch, vector_mul_add(decay_vector3_uXX(packed, 16), RangeExtent(range, ch), RangeMin(range, ch)))

\* the last call was a decayed sample at the constant bit rate, and returned
ConstantCall ==
    /\ sampled.fn \in DecayedFns
    /\ is_constant_bit_rate(sampled.bit_rate)
    /\ ~sampled.failed_assert

\* C11: a decayed sample at the constant bit rate (0), of any channel, is raw
\* sample 0 of the given segment normalized against the clip range, decayed through
\* 16 bits a component, with the clip range applied and the segment range not
\* applied, whatever the sample index asked for.
C11_ConstantBitRateSample ==
    ConstantCall =>
        /\ sampled.result = ConstantSample(FnChannel(sampled.fn), sampled.segment, sampled.transform)
        /\ \A i \in Samples(sampled.segment) :
            DecayedSample(FnChannel(sampled.fn), sampled.segment, sampled.transform, i, 0) = sampled.result

\* a constant-bit-rate call past sample 0, where the sample asked for is not sample
\* 0's value and the segment range is not the identity
C11_Witness ==
    /\ ConstantCall
    /\ sampled.sample > 0
    /\ LET ch == FnChannel(sampled.fn)
           segment_range == segments[sampled.segment].ranges[sampled.transform]
       IN  /\ SegmentNormalized(sampled.segment, sampled.transform, ch)
           /\ RangeExtent(segment_range, ch) /= VQ(<<1, 1, 1, 0>>, 1)
           /\ database_get("raw", ch, sampled.segment, sampled.transform, sampled.sample)
                /= database_get("raw", ch, sampled.segment, sampled.transform, 0)


\* C12 as stated: the constant-bit-rate decayed sample of a transform's channel is
\* the same whichever segment of the clip it is asked of.
C12_SameInEverySegment ==
    ConstantCall =>
        \A s \in DOMAIN segments :
            DecayedSample(FnChannel(sampled.fn), s, sampled.transform, 0, 0) = sampled.result

\* C12: the constant-bit-rate decayed sample is that of the given segment's raw
\* sample 0: two segments whose raw sample 0 of the transform's channel are equal
\* get the same value, whatever their segment ranges.
C12_SameWhereFirstSamplesAgree ==
    ConstantCall =>
        LET ch == FnChannel(sampled.fn)
        IN  \A s \in DOMAIN segments :
                RawConverted(ch, s, sampled.transform, 0)
                    = RawConverted(ch, sampled.segment, sampled.transform, 0)
                => DecayedSample(ch, s, sampled.transform, 0, 0) = sampled.result

\* a constant-bit-rate call, another segment with the same raw sample 0 and another
\* segment range
C12_Witness ==
    /\ ConstantCall
    /\ LET ch == FnChannel(sampled.fn)
       IN  \E s \in DOMAIN segments :
            /\ s /= sampled.segment
            /\ RawConverted(ch, s, sampled.transform, 0)
                = RawConverted(ch, sampled.segment, sampled.transform, 0)
            /\ SegmentNormalized(s, sampled.transform, ch)
            /\ RangeExtent(segments[s].ranges[sampled.transform], ch)
                /= RangeExtent(segments[sampled.segment].ranges[sampled.transform], ch)

\* the last call was one of fn
CalledFn(fn) == sampled.fn = fn /\ sampled.returned

\* the last call returned: no ACL_ASSERT stopped it
CallReturned == sampled.fn /= "none" /\ sampled.returned

\* the last call was a decayed sample at the raw bit rate, and returned
RawCall ==
    /\ sampled.fn \in DecayedFns
    /\ is_raw_bit_rate(sampled.bit_rate)
    /\ CallReturned

\* C13: a decayed sample at the raw bit rate (18), of any channel, is the raw
\* database's sample at (segment, transform, sample_index) in the mutable
\* database's rotation format, with no range applied and nothing quantized; for
\* translation and scale it is the raw database's value itself.
C13_RawBitRateSample ==
    RawCall =>
        LET ch == FnChannel(sampled.fn)
        IN  /\ sampled.result
                = Returned(ch, RawConverted(ch, sampled.segment, sampled.transform, sampled.sample))
            /\ ch /= 0 => sampled.result
                            = database_get("raw", ch, sampled.segment, sampled.transform, sampled.sample)

\* a raw-bit-rate call past sample 0 on a channel normalized in clip and segment,
\* where the mutable database no longer holds the raw value
C13_Witness ==
    /\ RawCall
    /\ sampled.sample > 0
    /\ LET ch == FnChannel(sampled.fn)
       IN  /\ ClipNormalized(sampled.transform, ch)
           /\ SegmentNormalized(sampled.segment, sampled.transform, ch)
           /\ database_get("mutable", ch, sampled.segment, sampled.transform, sampled.sample)
                /= database_get("raw", ch, sampled.segment, sampled.transform, sampled.sample)

\* the last call was a decayed sample at a variable bit rate (1..17), its
\* ACL_ASSERTs held, and it returned
VariableCall ==
    /\ sampled.fn \in DecayedFns
    /\ ~is_constant_bit_rate(sampled.bit_rate)
    /\ ~is_raw_bit_rate(sampled.bit_rate)
    /\ ~sampled.failed_assert

\* the mutable database's sample of channel ch decayed at num_bits, then the
\* segment range of ch applied where ch is segment-normalized, then the clip range
\* of ch applied where ch is clip-normalized
VariableSample(ch, s, t, i, num_bits) ==
    LET stored     == database_get("mutable", ch, s, t, i)
        packed     == IF ch = 0 /\ ~ClipNormalized(t, 0) THEN decay_vector3_sXX(stored, num_bits)
                      ELSE decay_vector3_uXX(stored, num_bits)
        in_segment == IF SegmentNormalized(s, t, ch)
                      THEN vector_mul_add(packed, RangeExtent(segments[s].ranges[t], ch),
                                          RangeMin(segments[s].ranges[t], ch))
                      ELSE packed
        in_clip    == IF ClipNormalized(t, ch)
                      THEN vector_mul_add(in_segment, RangeExtent(mutable_database.m_ranges[t], ch),
                                          RangeMin(mutable_database.m_ranges[t], ch))
                      ELSE in_segment
    IN  Returned(ch, in_clip)

\* C14: a decayed sample at a bit rate in 1..17, of any channel, is the mutable
\* database's sample of that channel decayed at k_bit_rate_num_bits[bit rate] bits,
\* with the segment range of that channel applied iff that channel is
\* segment-normalized and then the clip range of that channel applied iff that
\* channel is clip-normalized, whatever the flags of the other channels.
C14_VariableBitRateSample ==
    VariableCall =>
        sampled.result = VariableSample(FnChannel(sampled.fn), sampled.segment, sampled.transform,
                                        sampled.sample, k_bit_rate_num_bits[sampled.bit_rate + 1])

\* the last call was a normalized (quantization-free) sample, and returned
NormalizedCall == sampled.fn \in NormalizedFns /\ CallReturned

\* channel ch of `database` is marked normalized in the clip range of transform t
DatabaseNormalized(database, t, ch) ==
    CASE ch = 0 -> database_get_range(database, t).are_rotations_normalized
      [] ch = 1 -> database_get_range(database, t).are_translations_normalized
      [] ch = 2 -> database_get_range(database, t).are_scales_normalized

\* the database's stored value of channel ch, times the segment extent plus the
\* segment min where segment-normalized, times the clip extent plus the clip min
\* where clip-normalized
NormalizedSample(database, ch, s, t, i) ==
    LET stored     == database_get(database, ch, s, t, i)
        in_segment == IF SegmentNormalized(s, t, ch)
                      THEN vector_mul_add(stored, RangeExtent(segments[s].ranges[t], ch),
                                          RangeMin(segments[s].ranges[t], ch))
                      ELSE stored
        in_clip    == IF DatabaseNormalized(database, t, ch)
                      THEN vector_mul_add(in_segment, RangeExtent(database_get_range(database, t), ch),
                                          RangeMin(database_get_range(database, t), ch))
                      ELSE in_segment
    IN  IF ch = 0 THEN rotation_to_quat_32(in_clip, database_get_rotation_format(database)) ELSE in_clip

\* C15: the sample get_rotation_sample / get_translation_sample / get_scale_sample
\* return over a database is computed from that channel's stored value at (segment,
\* transform, sample_index): times the segment extent plus the segment min where
\* segment-normalized, then times the clip extent plus the clip min where
\* clip-normalized; the scale sample is derived from the stored scale.
C15_NormalizedSampleOfOwnChannel ==
    NormalizedCall =>
        sampled.result = NormalizedSample(sampled.database, FnChannel(sampled.fn), sampled.segment,
                                          sampled.transform, sampled.sample)

\* a value of 1/2 through num_bits bits a component, in the range [min, min + extent]
HalfThrough(num_bits, min, extent) ==
    QAdd(min, QMul(Q(symmetric_round(QMul(Q(1, 2), Q(Pow2(num_bits) - 1, 1))), Pow2(num_bits) - 1), extent))

\* the last call asked for the translation at bit rate 8 of a transform whose clip
\* range is min (0,0,0), extent (2,2,2), where the mutable database stores 1/2 in
\* every component and the segment range is not normalized
HalfAtBitRateEight ==
    /\ sampled.fn = "get_decayed_translation_sample"
    /\ sampled.bit_rate = 8
    /\ ~sampled.failed_assert
    /\ ClipNormalized(sampled.transform, 1)
    /\ ~SegmentNormalized(sampled.segment, sampled.transform, 1)
    /\ mutable_database.m_ranges[sampled.transform].translation_min = <<Q(0, 1), Q(0, 1), Q(0, 1)>>
    /\ mutable_database.m_ranges[sampled.transform].translation_extent = <<Q(2, 1), Q(2, 1), Q(2, 1)>>
    /\ \A k \in 1..3 :
        database_get("mutable", 1, sampled.segment, sampled.transform, sampled.sample)[k] = Q(1, 2)

\* C16 as stated: with clip range min (0,0,0), extent (2,2,2) and 1/2 stored, the
\* decayed translation at bit rate 8 has 8 bits a component: each component is
\* min + round(0.5 * 255) / 255 * extent.
C16_EightBitsAtBitRateEight ==
    HalfAtBitRateEight => \A k \in 1..3 : sampled.result[k] = HalfThrough(8, Q(0, 1), Q(2, 1))

\* C16: with clip range min (0,0,0), extent (2,2,2) and 1/2 stored, the decayed
\* translation at bit rate 8 has k_bit_rate_num_bits[8] = 10 bits a component:
\* each component is min + round(0.5 * 1023) / 1023 * extent.
C16_TenBitsAtBitRateEight ==
    HalfAtBitRateEight => \A k \in 1..3 : sampled.result[k] = HalfThrough(10, Q(0, 1), Q(2, 1))

C16_Witness == HalfAtBitRateEight /\ sampled.sample > 0 /\ sampled.result[1] = Q(1024, 1023)

-----------------------------------------------------------------------------
(* Pose sampling over a database whose clip ranges flag channels constant or
   default.  The driver's constant-track detection compares a channel's extent
   with the thresholds of the compression settings, so a flagged channel's
   samples need not be equal, nor equal to the identity. *)

TrackKinds == {"constant", "default"}

\* range with channel ch flagged: a default channel is a constant one
FlaggedRange(range, ch, kind) ==
    CASE ch = 0 -> [range EXCEPT !.is_rotation_constant = TRUE, !.is_rotation_default = (kind = "default")]
      [] ch = 1 -> [range EXCEPT !.is_translation_constant = TRUE, !.is_translation_default = (kind = "default")]
      [] ch = 2 -> [range EXCEPT !.is_scale_constant = TRUE, !.is_scale_default = (kind = "default")]

\* no channel of the mutable database is flagged yet
NothingFlagged ==
    \A t \in Transforms :
        LET range == mutable_database.m_ranges[t]
        IN  ~(range.is_rotation_constant \/ range.is_translation_constant \/ range.is_scale_constant)

\* constant-track detection finding channel ch of transform t within its threshold
DetectConstantTrack(t, ch, kind) ==
    /\ pc = "live"
    /\ sampled = NoSample
    /\ mutable_database.stage = "created"
    /\ NothingFlagged
    /\ ch = 2 /\ kind = "constant" => m_has_scale
    /\ mutable_database' = [mutable_database EXCEPT !.m_ranges[t] = FlaggedRange(@, ch, kind)]
    /\ UNCHANGED segments
    /\ DriverFrame

InitFlags ==
    \E T \in 1..MaxTransforms, hs \in BOOLEAN, seed \in SmallClipSeeds,
       distribution \in {"Uniform", "Variable"} :
        /\ Constructed([num_samples |-> MaxClipSamples, num_bones |-> T, has_scale |-> hs,
                        additive_format |-> "None", seed |-> seed],
                       WithDistribution(
                           WithRanges(MakeSegments(SegmentCounts(MaxClipSamples, SegmentMaxSamples), T, hs), T),
                           distribution), 1)
        /\ mutable_database = NoDatabase
        /\ m_skeleton = ChainSkeleton(T)
        /\ has_assert_checks = TRUE
        /\ sampled = NoSample

NextFlags ==
    \/ CreateMutableDatabase("Quat_128")
    \/ \E t \in Transforms, ch \in 0..2, kind \in TrackKinds : DetectConstantTrack(t, ch, kind)
    \/ \E database \in {"raw", "mutable"}, s \in DOMAIN segments, sample_time \in PoseTimes, t \in Transforms :
        CallSampleDatabase(database, s, sample_time, t)
    \/ DropSample

SpecFlags == InitFlags /\ [][NextFlags]_vars

\* the last call was a sample_database, and returned
PoseCall == CalledFn("sample_database")

\* the transform the last sample_database stored
PoseSampledValue == sampled.writes[1].value

\* C24: sample_rotation returns the identity quaternion where is_rotation_default,
\* sample_translation zero where is_translation_default, sample_scale the
\* database's default scale where is_scale_default, at every sample time and in
\* every segment, whatever the buffer holds; where the channel is constant and
\* not default the result is the sample of that channel at index 0 of the
\* segment (the rotation through quat_normalize), whatever the sample time.
C24_PoseHonoursConstantAndDefault ==
    PoseCall =>
        LET range == database_get_range(sampled.database, sampled.transform)
            first(ch) == NormalizedSample(sampled.database, ch, sampled.segment, sampled.transform, 0)
        IN  /\ range.is_rotation_default =>
                  /\ PoseSampledValue.rotation.op = "quat_identity"
                  /\ PoseSampledValue.rotation.a = VQ(<<0, 0, 0, 1>>, 1)
            /\ range.is_translation_default => PoseSampledValue.translation = VQ(<<0, 0, 0, 0>>, 1)
            /\ range.is_scale_default => PoseSampledValue.scale = VQ(m_default_scale, 1)
            /\ range.is_rotation_constant /\ ~range.is_rotation_default =>
                  /\ PoseSampledValue.rotation.op = "quat_normalize"
                  /\ PoseSampledValue.rotation.a = first(0)
            /\ range.is_translation_constant /\ ~range.is_translation_default =>
                  PoseSampledValue.translation = first(1)
            /\ range.is_scale_constant /\ ~range.is_scale_default =>
                  PoseSampledValue.scale = first(2)

-----------------------------------------------------------------------------
(* Ingest: the constructor as a step, over clips that are empty, that have an
   empty segment, a sample rate of zero, or rotations that are not unit. *)

\* the sample rates of the clips handed to the constructor
SampleRates == {0, 30}

InitIngest ==
    \E T \in 1..MaxTransforms, N \in 0..MaxClipSamples, hs \in BOOLEAN, rate \in SampleRates,
       seed \in {0} \cup UnitClipSeeds, empty_segment \in BOOLEAN :
        LET counts == SegmentCounts(N, SegmentMaxSamples)
            given  == IF empty_segment
                      THEN [i \in 0..NumSegmentsOf(N, SegmentMaxSamples) |->
                               IF i \in DOMAIN counts THEN counts[i] ELSE 0]
                      ELSE counts
        IN  /\ pc = "constructing"
            /\ clip = [num_samples |-> N, num_bones |-> T, has_scale |-> hs,
                       additive_format |-> "None", seed |-> seed, sample_rate |-> rate]
            /\ segments = MakeSegments(given, T, hs)
            /\ m_has_scale = hs
            /\ m_num_transforms = T
            /\ m_num_samples_per_track = N
            /\ m_default_scale = <<0, 0, 0, 0>>
            /\ m_rotation_format = "Quat_128"
            /\ m_translation_format = "Vector3_96"
            /\ m_scale_format = "Vector3_96"
            /\ m_ranges = <<>>
            /\ m_data = <<>>
            /\ m_data_size = ToU32(0)
            /\ wild = 1
            /\ last = NoOp
            /\ accesses = {}
            /\ num_ops = 0
            /\ dealloc_size = "none"
            /\ NoTracks
            /\ NoSampling

\* track_database::track_database, the whole constructor: it checks nothing of
\* the clip, allocates m_ranges and m_data and copies the samples, each rotation
\* through quat_normalize
ConstructDatabase ==
    /\ pc = "constructing"
    /\ LET data_size == AccumulateDataSize(segments, 0, NumSegments, ToU32(0))
           size      == U32Value(data_size)
           cx        == [hs |-> clip.has_scale, size |-> size, seed |-> clip.seed, g |-> wild]
           fresh     == [a \in 0..((size \div SizeofFloat) - 1) |-> Garbage(wild, a * SizeofFloat)]
       IN  /\ pc' = "live"
           /\ m_has_scale' = clip.has_scale
           /\ m_num_samples_per_track' = clip.num_samples
           /\ m_num_transforms' = clip.num_bones
           /\ m_ranges' = [t \in 0..(clip.num_bones - 1) |-> ZeroRanges]
           /\ m_data' = ConstructSegments(fresh, cx, segments, 0, NumSegments, clip.num_bones)
           /\ m_data_size' = data_size
           /\ m_default_scale' = get_default_scale(clip.additive_format)
           /\ accesses' = ConstructorStores(cx, segments, clip.num_bones)
    /\ UNCHANGED <<clip, sampling_vars, segments, m_rotation_format, m_translation_format, m_scale_format,
                   wild, last, num_ops, dealloc_size, track_vars>>

NextIngest ==
    \/ ConstructDatabase
    \/ Destructor

SpecIngest == InitIngest /\ [][NextIngest]_vars

\* the clip handed to the constructor is empty, has a segment of zero samples, a
\* sample rate of zero, or rotations that are not unit quaternions
InvalidInput ==
    \/ clip.num_samples = 0
    \/ \E s \in DOMAIN segments : segments[s].num_samples_per_track = 0
    \/ clip.sample_rate = 0
    \/ clip.seed \notin UnitClipSeeds

\* C23: constructing a track_database from an empty clip, a clip with a segment
\* of zero samples, a zero sample rate or a rotation that is not unit yields an
\* error and no database: no buffer is allocated or written.
C23_InvalidInputRejected ==
    InvalidInput => /\ pc = "constructing"
                    /\ m_data = <<>>
                    /\ accesses = {}

-----------------------------------------------------------------------------
(* Calls of the functions that read no database: get_uniform_sample_key and the
   functions of track_types.h.  `sampled.result` holds what the call was given
   and what it returned. *)

\* a call of fn with the arguments args that returns value, unless an ACL_ASSERT
\* on its path does not hold in a build with assertion checks
Called(fn, args, value, asserts_hold) ==
    LET aborts == has_assert_checks /\ ~asserts_hold
    IN  /\ pc = "live"
        /\ sampled = NoSample
        /\ sampled' = [fn |-> fn, database |-> "none", segment |-> 0, transform |-> 0, sample |-> 0,
                       bit_rate |-> 0, result |-> [args |-> args, value |-> value],
                       failed_assert |-> ~asserts_hold, writes |-> <<>>, returned |-> ~aborts]
        /\ pc' = IF aborts THEN "aborted" ELSE pc
        /\ SamplingFrame

\* get_uniform_sample_key where the clip keys found are key0 and key0 + 1 and the
\* alpha rounded to the nearest is nearest_alpha, 0 or 1
CallGetUniformSampleKey(num_samples_per_track_in_segment, segment_start_offset, key0, nearest_alpha) ==
    LET found == [key0 |-> key0, key1 |-> key0 + 1, interpolation_alpha |-> Q(nearest_alpha, 1)]
    IN  Called("get_uniform_sample_key",
               [key0 |-> key0, key1 |-> key0 + 1, interpolation_alpha |-> nearest_alpha,
                num_samples_per_track_in_segment |-> num_samples_per_track_in_segment,
                segment_start_offset |-> segment_start_offset],
               uniform_sample_key_of(found, num_samples_per_track_in_segment, segment_start_offset), TRUE)

\* the uint8_t values bit rates are asked about: the indices of the table, the
\* one past it and k_invalid_bit_rate
BitRateArguments == 0..k_num_bit_rates \cup {k_invalid_bit_rate}

\* get_num_bits_at_bit_rate: ACL_ASSERT(bit_rate <= k_highest_bit_rate); past the
\* table the read is of whatever lies behind it
CallGetNumBitsAtBitRate(bit_rate) ==
    Called("get_num_bits_at_bit_rate", [bit_rate |-> bit_rate],
           IF bit_rate <= k_highest_bit_rate THEN get_num_bits_at_bit_rate(bit_rate)
           ELSE Garbage(wild, bit_rate) % 256,
           bit_rate <= k_highest_bit_rate)

CallIsConstantBitRate(bit_rate) ==
    Called("is_constant_bit_rate", [bit_rate |-> bit_rate], is_constant_bit_rate(bit_rate), TRUE)

CallIsRawBitRate(bit_rate) ==
    Called("is_raw_bit_rate", [bit_rate |-> bit_rate], is_raw_bit_rate(bit_rate), TRUE)

\* a C string is the sequence of its characters before the terminating NUL
NUL == "\\0"

CharAt(s, i) == IF i <= Len(s) THEN s[i] ELSE NUL

strlen(s) == Len(s)

\* std::strncmp: 0 when the first count characters agree or both strings end
\* before they differ, 1 for any other outcome
strncmp(lhs, rhs, count) ==
    LET ended(i) == CharAt(lhs, i) = NUL /\ CharAt(rhs, i) = NUL
        compared(i) == \A j \in 1..(i - 1) : CharAt(lhs, j) = CharAt(rhs, j) /\ ~ended(j)
    IN  IF \E i \in 1..count : compared(i) /\ CharAt(lhs, i) # CharAt(rhs, i) THEN 1 ELSE 0

track_type8 == {"float1f", "float2f", "float3f", "float4f", "vector4f"}

\* a value of the enumeration's underlying type that is none of its enumerators
InvalidEnumerator == "invalid"

InvalidName == <<"<", "I", "n", "v", "a", "l", "i", "d", ">">>

get_rotation_format_name(format) ==
    CASE format = "Quat_128" -> <<"Q", "u", "a", "t", "_", "1", "2", "8">>
      [] format = "QuatDropW_96" -> <<"Q", "u", "a", "t", "D", "r", "o", "p", "W", "_", "9", "6">>
      [] format = "QuatDropW_48" -> <<"Q", "u", "a", "t", "D", "r", "o", "p", "W", "_", "4", "8">>
      [] format = "QuatDropW_32" -> <<"Q", "u", "a", "t", "D", "r", "o", "p", "W", "_", "3", "2">>
      [] format = "QuatDropW_Variable" -> <<"Q", "u", "a", "t", "D", "r", "o", "p", "W", "_", "V", "a", "r", "i", "a", "b", "l", "e">>
      [] OTHER -> InvalidName

get_vector_format_name(format) ==
    CASE format = "Vector3_96" -> <<"V", "e", "c", "t", "o", "r", "3", "_", "9", "6">>
      [] format = "Vector3_48" -> <<"V", "e", "c", "t", "o", "r", "3", "_", "4", "8">>
      [] format = "Vector3_32" -> <<"V", "e", "c", "t", "o", "r", "3", "_", "3", "2">>
      [] format = "Vector3_Variable" -> <<"V", "e", "c", "t", "o", "r", "3", "_", "V", "a", "r", "i", "a", "b", "l", "e">>
      [] OTHER -> InvalidName

get_track_type_name(type) ==
    CASE type = "float1f" -> <<"f", "l", "o", "a", "t", "1", "f">>
      [] type = "float2f" -> <<"f", "l", "o", "a", "t", "2", "f">>
      [] type = "float3f" -> <<"f", "l", "o", "a", "t", "3", "f">>
      [] type = "float4f" -> <<"f", "l", "o", "a", "t", "4", "f">>
      [] type = "vector4f" -> <<"v", "e", "c", "t", "o", "r", "4", "f">>
      [] OTHER -> InvalidName

\* the parsers: the first literal, in the order of the source, that format starts
\* with sets out_format and returns true; none does, out_format is left alone
get_rotation_format(format, out_format) ==
    LET starts(name) == strncmp(format, name, strlen(name)) = 0
    IN  CASE starts(<<"Q", "u", "a", "t", "_", "1", "2", "8">>) -> [returned |-> TRUE, out_format |-> "Quat_128"]
          [] starts(<<"Q", "u", "a", "t", "D", "r", "o", "p", "W", "_", "9", "6">>) -> [returned |-> TRUE, out_format |-> "QuatDropW_96"]
          [] starts(<<"Q", "u", "a", "t", "D", "r", "o", "p", "W", "_", "4", "8">>) -> [returned |-> TRUE, out_format |-> "QuatDropW_48"]
          [] starts(<<"Q", "u", "a", "t", "D", "r", "o", "p", "W", "_", "3", "2">>) -> [returned |-> TRUE, out_format |-> "QuatDropW_32"]
          [] starts(<<"Q", "u", "a", "t", "D", "r", "o", "p", "W", "_", "V", "a", "r", "i", "a", "b", "l", "e">>) -> [returned |-> TRUE, out_format |-> "QuatDropW_Variable"]
          [] OTHER -> [returned |-> FALSE, out_format |-> out_format]

get_vector_format(format, out_format) ==
    LET starts(name) == strncmp(format, name, strlen(name)) = 0
    IN  CASE starts(<<"V", "e", "c", "t", "o", "r", "3", "_", "9", "6">>) -> [returned |-> TRUE, out_format |-> "Vector3_96"]
          [] starts(<<"V", "e", "c", "t", "o", "r", "3", "_", "4", "8">>) -> [returned |-> TRUE, out_format |-> "Vector3_48"]
          [] starts(<<"V", "e", "c", "t", "o", "r", "3", "_", "3", "2">>) -> [returned |-> TRUE, out_format |-> "Vector3_32"]
          [] starts(<<"V", "e", "c", "t", "o", "r", "3", "_", "V", "a", "r", "i", "a", "b", "l", "e">>) -> [returned |-> TRUE, out_format |-> "Vector3_Variable"]
          [] OTHER -> [returned |-> FALSE, out_format |-> out_format]

\* get_track_type with the literal of float2f taken for float1f
get_track_type_of_float1f_twice(type, out_type) ==
    LET starts(name) == strncmp(type, name, strlen(name)) = 0
    IN  CASE starts(<<"f", "l", "o", "a", "t", "1", "f">>) \/ starts(<<"f", "l", "o", "a", "t", "2", "f">>) -> [returned |-> TRUE, out_format |-> "float1f"]
          [] starts(<<"f", "l", "o", "a", "t", "3", "f">>) -> [returned |-> TRUE, out_format |-> "float3f"]
          [] starts(<<"f", "l", "o", "a", "t", "4", "f">>) -> [returned |-> TRUE, out_format |-> "float4f"]
          [] starts(<<"v", "e", "c", "t", "o", "r", "4", "f">>) -> [returned |-> TRUE, out_format |-> "vector4f"]
          [] OTHER -> [returned |-> FALSE, out_format |-> out_type]

get_track_type(type, out_type) ==
    LET starts(name) == strncmp(type, name, strlen(name)) = 0
    IN  CASE starts(<<"f", "l", "o", "a", "t", "1", "f">>) -> [returned |-> TRUE, out_format |-> "float1f"]
          [] starts(<<"f", "l", "o", "a", "t", "2", "f">>) -> [returned |-> TRUE, out_format |-> "float2f"]
          [] starts(<<"f", "l", "o", "a", "t", "3", "f">>) -> [returned |-> TRUE, out_format |-> "float3f"]
          [] starts(<<"f", "l", "o", "a", "t", "4", "f">>) -> [returned |-> TRUE, out_format |-> "float4f"]
          [] starts(<<"v", "e", "c", "t", "o", "r", "4", "f">>) -> [returned |-> TRUE, out_format |-> "vector4f"]
          [] OTHER -> [returned |-> FALSE, out_format |-> out_type]

\* the names of every enumerator and of a value that is none
KnownNames ==
    {get_rotation_format_name(f) : f \in RotationFormat8} \cup
    {get_vector_format_name(f) : f \in VectorFormat8} \cup
    {get_track_type_name(t) : t \in track_type8}

\* the strings handed to the parsers: the names, the names followed by more, the
\* names cut short, the name of no enumerator and the empty string
FormatStrings ==
    KnownNames \cup {name \o <<"x">> : name \in KnownNames} \cup
    {SubSeq(name, 1, Len(name) - 1) : name \in KnownNames} \cup {InvalidName, <<>>}

CallGetRotationFormat(format, out_format) ==
    Called("get_rotation_format", [format |-> format, out_format |-> out_format],
           get_rotation_format(format, out_format), TRUE)

CallGetVectorFormat(format, out_format) ==
    Called("get_vector_format", [format |-> format, out_format |-> out_format],
           get_vector_format(format, out_format), TRUE)

CallGetTrackType(type, out_type) ==
    Called("get_track_type", [format |-> type, out_format |-> out_type],
           get_track_type(type, out_type), TRUE)

\* a database constructed, and a caller of the functions beside it
InitCore ==
    \E checks \in BOOLEAN :
        /\ Constructed([num_samples |-> 1, num_bones |-> 1, has_scale |-> FALSE,
                        additive_format |-> "None", seed |-> 1],
                       WithRanges(MakeSegments(SegmentCounts(1, SegmentMaxSamples), 1, FALSE), 1), 1)
        /\ mutable_database = NoDatabase
        /\ m_skeleton = ChainSkeleton(1)
        /\ has_assert_checks = checks
        /\ sampled = NoSample

NextCore ==
    \/ \E n \in 1..SegmentMaxSamples, o \in 0..MaxClipSamples, key0 \in 0..(2 * MaxClipSamples), alpha \in {0, 1} :
        CallGetUniformSampleKey(n, o, key0, alpha)
    \/ \E bit_rate \in BitRateArguments : CallGetNumBitsAtBitRate(bit_rate)
    \/ \E bit_rate \in BitRateArguments : CallIsConstantBitRate(bit_rate)
    \/ \E bit_rate \in BitRateArguments : CallIsRawBitRate(bit_rate)
    \/ \E format \in FormatStrings, out_format \in RotationFormat8 : CallGetRotationFormat(format, out_format)
    \/ \E format \in FormatStrings, out_format \in VectorFormat8 : CallGetVectorFormat(format, out_format)
    \/ \E type \in FormatStrings, out_type \in track_type8 : CallGetTrackType(type, out_type)
    \/ DropSample

SpecCore == InitCore /\ [][NextCore]_vars

-----------------------------------------------------------------------------
(* C21: the uniform sample key *)

\* x clamped to lo..hi
Clamped(x, lo, hi) == IF x < lo THEN lo ELSE IF x > hi THEN hi ELSE x

\* the clip key nearest to the sample time of the last get_uniform_sample_key
NearestClipKey ==
    IF sampled.result.args.interpolation_alpha = 0 THEN sampled.result.args.key0
    ELSE sampled.result.args.key1

\* C21: for a segment of n >= 1 samples at start offset o and clip keys key0,
\* key1 = key0 + 1 with alpha 0 or 1, get_uniform_sample_key returns a key in
\* 0..n-1, the nearest clip key minus o clamped to the segment: 0 for a clip key
\* before the segment, n-1 for one past its last sample.
C21_UniformSampleKeyClamped ==
    CalledFn("get_uniform_sample_key") =>
        LET n == sampled.result.args.num_samples_per_track_in_segment
            o == sampled.result.args.segment_start_offset
        IN  /\ sampled.result.value \in 0..(n - 1)
            /\ sampled.result.value = Clamped(NearestClipKey - o, 0, n - 1)

-----------------------------------------------------------------------------
(* C22: the bit rate table *)

\* C22: k_bit_rate_num_bits has 19 entries, 0, 3, 4, ..., 19, 32:
\* get_num_bits_at_bit_rate(i) = i + 2 for 1 <= i <= 17, index 0 is the only one
\* is_constant_bit_rate holds for, index 18, of 32 bits, the only one
\* is_raw_bit_rate holds for, and no index is both.
C22_BitRateTable ==
    /\ k_num_bit_rates = 19
    /\ CalledFn("get_num_bits_at_bit_rate") =>
          LET i == sampled.result.args.bit_rate
          IN  /\ i = 0 => sampled.result.value = 0
              /\ i \in 1..17 => sampled.result.value = i + 2
              /\ i = 18 => sampled.result.value = 32
    /\ CalledFn("is_constant_bit_rate") => (sampled.result.value <=> sampled.result.args.bit_rate = 0)
    /\ CalledFn("is_raw_bit_rate") => (sampled.result.value <=> sampled.result.args.bit_rate = 18)
    /\ \A i \in BitRateArguments : ~(is_constant_bit_rate(i) /\ is_raw_bit_rate(i))

\* the raw bit rate was asked about and found raw
C22_Witness ==
    /\ CalledFn("is_raw_bit_rate")
    /\ sampled.result.args.bit_rate = 18
    /\ sampled.result.value
    /\ get_num_bits_at_bit_rate(18) = 32

-----------------------------------------------------------------------------
(* C30: format names round-trip *)

StartsWith(s, name) == Len(s) >= Len(name) /\ SubSeq(s, 1, Len(name)) = name

ParserCalled(fn) == CalledFn(fn) /\ ~sampled.failed_assert

\* what the call of a parser over the enumeration Values named by NameOf has to
\* have returned
RoundTrips(fn, Values, Names) ==
    ParserCalled(fn) =>
        LET format == sampled.result.args.format
            value == sampled.result.value
        IN  /\ \A f \in Values : format = Names[f] => value.returned /\ value.out_format = f
            /\ (\A f \in Values : ~StartsWith(format, Names[f])) =>
                   ~value.returned /\ value.out_format = sampled.result.args.out_format

\* C30: for every RotationFormat8 f, get_rotation_format(get_rotation_format_name(f), out)
\* returns true with out = f, and so do get_vector_format over VectorFormat8 and
\* get_track_type over track_type8; each parser returns false and leaves out
\* unchanged for a string that starts with none of the known names.
C30_FormatNamesRoundTrip ==
    /\ RoundTrips("get_rotation_format", RotationFormat8, [f \in RotationFormat8 |-> get_rotation_format_name(f)])
    /\ RoundTrips("get_vector_format", VectorFormat8, [f \in VectorFormat8 |-> get_vector_format_name(f)])
    /\ RoundTrips("get_track_type", track_type8, [t \in track_type8 |-> get_track_type_name(t)])

\* the name of the last track type was parsed over another type
C30_Witness ==
    /\ ParserCalled("get_track_type")
    /\ sampled.result.args.format = get_track_type_name("float2f")
    /\ sampled.result.args.out_format = "vector4f"
    /\ sampled.result.value = [returned |-> TRUE, out_format |-> "float2f"]

-----------------------------------------------------------------------------
(* C17: evaluation never mutates storage *)

\* the raw and the mutable database's buffers, the clip and segment range
\* descriptors, the formats
Storage ==
    <<m_data, m_data_size, m_ranges, mutable_database, segments,
      m_rotation_format, m_translation_format, m_scale_format>>

\* a step that is a call of a sampling function
SamplingCall == sampled = NoSample /\ sampled' /= NoSample

-----------------------------------------------------------------------------
(* C18: range normalization precedes decayed sampling *)

\* the last call was one of a get_decayed_*_sample
DecayedCall == sampled.fn \in DecayedFns

\* the ranges the last call's channel has to be marked normalized in before it:
\* clip and segment range at the constant bit rate, the clip range at every other
\* bit rate of translation and scale
NormalizedBefore ==
    LET ch == FnChannel(sampled.fn)
    IN  IF is_constant_bit_rate(sampled.bit_rate)
        THEN /\ ClipNormalized(sampled.transform, ch)
             /\ SegmentNormalized(sampled.segment, sampled.transform, ch)
        ELSE ch \in {1, 2} => ClipNormalized(sampled.transform, ch)

\* C18: a call of get_decayed_translation_sample or get_decayed_scale_sample on
\* which no assertion fails comes after the clip range of its channel was marked
\* normalized, a constant-bit-rate call of any get_decayed_*_sample on which no
\* assertion fails comes after both the clip and the segment range of its channel
\* were marked normalized; on a call made earlier an ACL_ASSERT fails, and the
\* build with assertion checks stops there.
C18_NormalizationPrecedesDecayedSampling ==
    DecayedCall =>
        /\ ~sampled.failed_assert => NormalizedBefore
        /\ ~NormalizedBefore => /\ sampled.failed_assert
                                /\ has_assert_checks => pc = "aborted" /\ ~sampled.returned

\* a variable-bit-rate translation call before the clip-range pass, stopped by
\* its assertion
C18_Witness ==
    /\ sampled.fn = "get_decayed_translation_sample"
    /\ ~is_constant_bit_rate(sampled.bit_rate)
    /\ mutable_database.stage = "created"
    /\ sampled.failed_assert
    /\ pc = "aborted"

-----------------------------------------------------------------------------
(* C19, C20: the hierarchical walk *)

HierarchicalFns == {"sample_database_hierarchical", "sample_streams_hierarchical"}

\* the last call sampled a pose hierarchically
HierarchicalCall == sampled.fn \in HierarchicalFns

\* t, parent(t), parent(parent(t)), ... up to the root
RECURSIVE AncestorChain(_)
AncestorChain(t) ==
    IF m_skeleton[t] = k_invalid_bone_index THEN <<t>> ELSE <<t>> \o AncestorChain(m_skeleton[t])

\* the indices of out_local_pose the last call stored to, in the order of the stores
WrittenIndices == [k \in 1..Len(sampled.writes) |-> sampled.writes[k].index]

\* the skeleton {0: no parent, 1 -> 0, 2 -> 1}
ChainOfThree ==
    /\ DOMAIN m_skeleton = 0..2
    /\ m_skeleton[0] = k_invalid_bone_index
    /\ m_skeleton[1] = 0
    /\ m_skeleton[2] = 1

\* C19: sample_database_hierarchical and sample_streams_hierarchical, under the
\* Uniform and the Variable distribution, store out_local_pose[k] for the target,
\* its parent, the parent of that and so on up to the root, each once, in that
\* order, and store no other entry; over the skeleton {0: no parent, 1 -> 0,
\* 2 -> 1} and target 2 the stores are to 2, 1, 0.
C19_HierarchicalWritesAncestorChain ==
    HierarchicalCall =>
        /\ sampled.returned
        /\ WrittenIndices = AncestorChain(sampled.transform)
        /\ \A j, k \in 1..Len(sampled.writes) : j /= k => WrittenIndices[j] /= WrittenIndices[k]
        /\ ChainOfThree /\ sampled.transform = 2 => WrittenIndices = <<2, 1, 0>>
        /\ sampled.fn = "sample_database_hierarchical" =>
              \A k \in 1..Len(sampled.writes) :
                  sampled.writes[k] = PoseStore(sampled.database, sampled.segment, sampled.sample,
                                                WrittenIndices[k])

\* target 2 of the chain of three, sampled from the normalized mutable database
\* of a Variable segment
C19_Witness ==
    /\ sampled.fn = "sample_database_hierarchical"
    /\ sampled.database = "mutable"
    /\ mutable_database.stage = "clip"
    /\ segments[sampled.segment].distribution = "Variable"
    /\ ChainOfThree
    /\ sampled.transform = 2
    /\ WrittenIndices = <<2, 1, 0>>

\* C20: over a skeleton where every parent index is a lower-numbered transform
\* or the sentinel, the parent walk of sample_database_hierarchical leaves its
\* loop after at most target_index + 1 iterations, for every target: the uint16_t
\* parent index, read as a uint32_t, equals k_invalid_bone_index at the root.
C20_ParentWalkTerminates ==
    sampled.fn = "sample_database_hierarchical" =>
        /\ sampled.returned
        /\ pc /= "looping"
        /\ Len(sampled.writes) <= sampled.transform + 1
        /\ get_parent_index(sampled.writes[Len(sampled.writes)].index) = k_invalid_bone_index

\* target 2 hanging off the root 0, past the root 1: two iterations
C20_Witness ==
    /\ sampled.fn = "sample_database_hierarchical"
    /\ sampled.returned
    /\ DOMAIN m_skeleton = 0..2
    /\ m_skeleton[1] = k_invalid_bone_index
    /\ m_skeleton[2] = 0
    /\ sampled.transform = 2
    /\ WrittenIndices = <<2, 0>>

-----------------------------------------------------------------------------
(* track.h: tracks over sample buffers *)

\* the IAllocator instances of the caller; a null IAllocator* is 0
Allocators == {1, 2}

\* sizeof(track_traits<type>::type)
sizeof_element_type(type) ==
    CASE type = "float1f" -> SizeofFloat
      [] type = "float2f" -> 2 * SizeofFloat
      [] type = "float3f" -> 3 * SizeofFloat
      [] type = "float4f" -> 4 * SizeofFloat
      [] type = "vector4f" -> 4 * SizeofFloat

\* a buffer of size bytes that allocator handed out (0: memory of the caller that
\* came from no allocator), its floats, and the deallocate calls made on it
Buffer(allocator, size, cells) == [allocator |-> allocator, size |-> size, cells |-> cells, deallocated |-> <<>>]

\* the floats of an array of the caller
CallerCells(size) == [i \in 1..(size \div SizeofFloat) |-> 10 + i]

\* the floats of memory nothing was written to, or that is no one's to read
WildCells(size) == [i \in 1..(size \div SizeofFloat) |-> Garbage(wild, i * SizeofFloat)]

is_owner(track) == track.m_allocator /= 0
is_ref(track) == track.m_allocator = 0

\* track::track()
track_default == [NoTrack EXCEPT !.live = TRUE, !.origin = "default"]

\* track_typed's private constructor over track's protected one
track_typed(type, allocator, data, num_samples, stride, data_size, sample_rate, desc, origin) ==
    [live |-> TRUE, m_allocator |-> allocator, m_data |-> data, m_num_samples |-> num_samples,
     m_stride |-> stride, m_data_size |-> data_size, m_sample_rate |-> sample_rate, m_type |-> type,
     m_category |-> "scalarf", m_element_size |-> sizeof_element_type(type), m_desc |-> desc,
     origin |-> origin]

\* the frame of an operation of track.h or track_array.h
TrackFrame ==
    UNCHANGED <<clip, segments, m_has_scale, m_num_transforms, m_num_samples_per_track,
                m_default_scale, m_rotation_format, m_translation_format, m_scale_format,
                m_ranges, m_data, m_data_size, wild, last, accesses, num_ops, dealloc_size,
                mutable_database, m_skeleton, has_assert_checks>>

CanOperate == pc = "live" /\ sampled = NoSample

\* a track constructed in slot t over a buffer that is new in buffers
ConstructOver(t, track, buffer) ==
    /\ CanOperate
    /\ ~tracks[t].live
    /\ Len(buffers) < MaxBuffers
    /\ buffers' = Append(buffers, buffer)
    /\ tracks' = [tracks EXCEPT ![t] = track]
    /\ UNCHANGED <<pc, sampled, track_arrays, storages>>
    /\ TrackFrame

\* make_copy: the elements of data, stride bytes apart, copied one after the other
\* into an allocation of the allocator
make_copy(t, type, desc, allocator, num_samples, sample_rate, stride) ==
    LET size == sizeof_element_type(type)
        data_size == num_samples * size
        data == CallerCells(num_samples * stride)
        per_element == size \div SizeofFloat
        data_copy == [i \in 1..(data_size \div SizeofFloat) |->
                          data[(((i - 1) \div per_element) * stride) \div SizeofFloat + ((i - 1) % per_element) + 1]]
    IN  ConstructOver(t, track_typed(type, allocator, Len(buffers) + 1, num_samples, size, data_size,
                                     sample_rate, desc, "make_copy"),
                      Buffer(allocator, data_size, data_copy))

\* make_reserve: an allocation nothing is written to
make_reserve(t, type, desc, allocator, num_samples, sample_rate) ==
    LET size == sizeof_element_type(type)
        data_size == num_samples * size
    IN  ConstructOver(t, track_typed(type, allocator, Len(buffers) + 1, num_samples, size, data_size,
                                     sample_rate, desc, "make_reserve"),
                      Buffer(allocator, data_size, WildCells(data_size)))

\* make_owner: data, which the caller allocated with the allocator, is the track's
make_owner(t, type, desc, allocator, num_samples, sample_rate, stride) ==
    LET data_size == num_samples * stride
    IN  ConstructOver(t, track_typed(type, allocator, Len(buffers) + 1, num_samples, stride, data_size,
                                     sample_rate, desc, "make_owner"),
                      Buffer(allocator, data_size, CallerCells(data_size)))

\* make_ref: data stays the caller's
make_ref(t, type, desc, num_samples, sample_rate, stride) ==
    LET data_size == num_samples * stride
    IN  ConstructOver(t, track_typed(type, 0, Len(buffers) + 1, num_samples, stride, data_size,
                                     sample_rate, desc, "make_ref"),
                      Buffer(0, data_size, CallerCells(data_size)))

\* track(track&& other): every member taken, other left without allocator and data
MoveConstructed(other) == [other EXCEPT !.live = TRUE]
\* the source of a move that keeps its allocator and data
MovedFromKeepingData(other) == [other EXCEPT !.origin = "moved_from"]

MovedFrom(other) == [other EXCEPT !.m_allocator = 0, !.m_data = 0, !.origin = "moved_from"]

MoveConstructTrack(t, other) ==
    /\ CanOperate
    /\ ~tracks[t].live
    /\ tracks[other].live
    /\ tracks' = [tracks EXCEPT ![t] = MoveConstructed(tracks[other]), ![other] = MovedFrom(tracks[other])]
    /\ UNCHANGED <<pc, sampled, track_arrays, buffers, storages>>
    /\ TrackFrame

\* operator=(track&& other): every member swapped
MoveAssignTrack(t, other) ==
    /\ CanOperate
    /\ tracks[t].live
    /\ tracks[other].live
    /\ t /= other
    /\ tracks' = [tracks EXCEPT ![t] = tracks[other], ![other] = tracks[t]]
    /\ UNCHANGED <<pc, sampled, track_arrays, buffers, storages>>
    /\ TrackFrame

\* IAllocator::deallocate(m_data, m_data_size) on the allocator the track holds
Deallocated(bufs, track) ==
    [bufs EXCEPT ![track.m_data].deallocated = Append(@, [allocator |-> track.m_allocator, size |-> track.m_data_size])]

\* ~track()
track_destructor(bufs, track) == IF is_owner(track) THEN Deallocated(bufs, track) ELSE bufs

DestroyTrack(t) ==
    /\ CanOperate
    /\ tracks[t].live
    /\ buffers' = track_destructor(buffers, tracks[t])
    /\ tracks' = [tracks EXCEPT ![t] = NoTrack]
    /\ UNCHANGED <<pc, sampled, track_arrays, storages>>
    /\ TrackFrame

\* what reading m_data_size bytes at m_data finds: memory that is null or was
\* deallocated holds anything
Readable(track) == track.m_data /= 0 /\ buffers[track.m_data].deallocated = <<>>
CellsOf(track) == IF Readable(track) THEN buffers[track.m_data].cells ELSE WildCells(track.m_data_size)

\* a call recorded with what it was called on and what it returned
TrackCalled(fn, args, value) ==
    [fn |-> fn, database |-> "none", segment |-> 0, transform |-> 0, sample |-> 0, bit_rate |-> 0,
     result |-> [args |-> args, value |-> value], failed_assert |-> FALSE, writes |-> <<>>, returned |-> TRUE]

\* get_copy: a default track given the allocator, an allocation of m_data_size bytes
\* with the source's bytes, and the members the function assigns
get_copy(track, allocator, data) ==
    [track_default EXCEPT !.m_allocator = allocator, !.m_data = data,
                          !.m_num_samples = track.m_num_samples, !.m_stride = track.m_stride,
                          !.m_data_size = track.m_data_size, !.m_type = track.m_type,
                          !.m_category = track.m_category, !.m_desc = track.m_desc,
                          !.origin = "get_copy"]

\* get_ref: a default track given the source's data and the members the function assigns
get_ref(track) ==
    [track_default EXCEPT !.m_allocator = 0, !.m_data = track.m_data,
                          !.m_num_samples = track.m_num_samples, !.m_stride = track.m_stride,
                          !.m_data_size = track.m_data_size, !.m_type = track.m_type,
                          !.m_category = track.m_category, !.m_desc = track.m_desc,
                          !.origin = "get_ref"]

CallGetCopy(t, source, allocator) ==
    LET copy == get_copy(tracks[source], allocator, Len(buffers) + 1)
        cells == CellsOf(tracks[source])
    IN  /\ CanOperate
        /\ ~tracks[t].live
        /\ tracks[source].live
        /\ Len(buffers) < MaxBuffers
        /\ buffers' = Append(buffers, Buffer(allocator, tracks[source].m_data_size, cells))
        /\ tracks' = [tracks EXCEPT ![t] = copy]
        /\ sampled' = TrackCalled("get_copy",
                                  [track |-> tracks[source], cells |-> cells, readable |-> Readable(tracks[source])],
                                  [track |-> copy, cells |-> cells])
        /\ UNCHANGED <<pc, track_arrays, storages>>
        /\ TrackFrame

CallGetRef(t, source) ==
    LET ref == get_ref(tracks[source])
    IN  /\ CanOperate
        /\ ~tracks[t].live
        /\ tracks[source].live
        /\ tracks' = [tracks EXCEPT ![t] = ref]
        /\ sampled' = TrackCalled("get_ref",
                                  [track |-> tracks[source], cells |-> CellsOf(tracks[source]),
                                   readable |-> Readable(tracks[source])],
                                  [track |-> ref, cells |-> CellsOf(ref)])
        /\ UNCHANGED <<pc, track_arrays, buffers, storages>>
        /\ TrackFrame

\* a pointer into a buffer; buffer 0 is the null address
ElementAt(data, offset) == [buffer |-> data, offset |-> offset]

\* the non-const operator[]: of track it returns nullptr without an allocator, of
\* track_typed the reference at 0x42
mutable_index_asserts_of_index_only(track, index) == index < track.m_num_samples

mutable_index_asserts(track, index) == is_owner(track) /\ index < track.m_num_samples

mutable_index(track, index, typed) ==
    IF track.m_allocator /= 0 THEN ElementAt(track.m_data, index * track.m_stride)
    ELSE IF typed THEN ElementAt(0, 66) ELSE ElementAt(0, 0)

\* the const operator[] asks only for the index to be in range
const_index_asserts(track, index) == index < track.m_num_samples

const_index(track, index) == ElementAt(track.m_data, index * track.m_stride)

\* an operator[] called on the track in slot t
Indexed(fn, t, index, typed, value, asserts_hold) ==
    /\ tracks[t].live
    /\ Called(fn, [track |-> tracks[t], index |-> index, typed |-> typed], value, asserts_hold)

CallMutableIndex(t, index, typed) ==
    Indexed("operator[]", t, index, typed, mutable_index(tracks[t], index, typed),
            mutable_index_asserts(tracks[t], index))

CallConstIndex(t, index, typed) ==
    Indexed("operator[] const", t, index, typed, const_index(tracks[t], index),
            const_index_asserts(tracks[t], index))

\* what the caller makes tracks of
TrackTypes == {"float2f"}
TrackSampleCounts == {2}
\* the indices asked for: the last sample's and the one past it
TrackIndices == {1, 2}
TrackDescriptions == {[output_index |-> 5]}
TrackSampleRates == {30}

InitTrack ==
    \E checks \in BOOLEAN :
        /\ Constructed([num_samples |-> 1, num_bones |-> 1, has_scale |-> FALSE,
                        additive_format |-> "None", seed |-> 1],
                       WithRanges(MakeSegments(SegmentCounts(1, SegmentMaxSamples), 1, FALSE), 1), 1)
        /\ mutable_database = NoDatabase
        /\ m_skeleton = ChainSkeleton(1)
        /\ has_assert_checks = checks
        /\ sampled = NoSample

NextTrack ==
    \/ \E t \in TrackSlots, type \in TrackTypes, desc \in TrackDescriptions, allocator \in Allocators,
          num_samples \in TrackSampleCounts, sample_rate \in TrackSampleRates :
           \/ make_copy(t, type, desc, allocator, num_samples, sample_rate, 2 * sizeof_element_type(type))
           \/ make_reserve(t, type, desc, allocator, num_samples, sample_rate)
           \/ make_owner(t, type, desc, allocator, num_samples, sample_rate, sizeof_element_type(type))
           \/ make_ref(t, type, desc, num_samples, sample_rate, 2 * sizeof_element_type(type))
    \/ \E t \in TrackSlots, other \in TrackSlots : MoveConstructTrack(t, other)
    \/ \E t \in TrackSlots, other \in TrackSlots : MoveAssignTrack(t, other)
    \/ \E t \in TrackSlots : DestroyTrack(t)
    \/ \E t \in TrackSlots, source \in TrackSlots, allocator \in Allocators : CallGetCopy(t, source, allocator)
    \/ \E t \in TrackSlots, source \in TrackSlots : CallGetRef(t, source)
    \/ \E t \in TrackSlots, index \in TrackIndices, typed \in BOOLEAN : CallMutableIndex(t, index, typed)
    \/ \E t \in TrackSlots, index \in TrackIndices, typed \in BOOLEAN : CallConstIndex(t, index, typed)
    \/ DropSample

SpecTrack == InitTrack /\ [][NextTrack]_vars

-----------------------------------------------------------------------------
(* track_array.h: arrays of tracks *)

\* allocate_type_array<track>(allocator, num_tracks): storage of num_tracks
\* default-constructed tracks
Storage_(allocator, num_tracks) ==
    [allocator |-> allocator, tracks |-> [i \in 1..num_tracks |-> track_default], deallocated |-> <<>>]

\* track_array()
track_array_default == [live |-> TRUE, m_allocator |-> 0, m_tracks |-> 0, m_num_tracks |-> 0]

TrackArrayFrame == UNCHANGED <<pc, sampled>> /\ TrackFrame

DefaultConstructArray(a) ==
    /\ CanOperate
    /\ ~track_arrays[a].live
    /\ track_arrays' = [track_arrays EXCEPT ![a] = track_array_default]
    /\ UNCHANGED <<tracks, buffers, storages>>
    /\ TrackArrayFrame

\* track_array(IAllocator& allocator, uint32_t num_tracks)
ConstructArray(a, allocator, num_tracks) ==
    /\ CanOperate
    /\ ~track_arrays[a].live
    /\ Len(storages) < Cardinality(TrackArraySlots)
    /\ storages' = Append(storages, Storage_(allocator, num_tracks))
    /\ track_arrays' = [track_arrays EXCEPT ![a] = [live |-> TRUE, m_allocator |-> allocator,
                                                     m_tracks |-> Len(storages) + 1, m_num_tracks |-> num_tracks]]
    /\ UNCHANGED <<tracks, buffers>>
    /\ TrackArrayFrame

\* the source of track_array(track_array&& other) that keeps its allocator
MovedFromArrayKeepingAllocator(other) == other

\* track_array(track_array&& other): other keeps m_tracks and m_num_tracks
MovedFromArray(other) == [other EXCEPT !.m_allocator = 0]

MoveConstructArray(a, other) ==
    /\ CanOperate
    /\ ~track_arrays[a].live
    /\ track_arrays[other].live
    /\ track_arrays' = [track_arrays EXCEPT ![a] = track_arrays[other], ![other] = MovedFromArray(track_arrays[other])]
    /\ UNCHANGED <<tracks, buffers, storages>>
    /\ TrackArrayFrame

\* operator=(track_array&& other): the three members swapped
MoveAssignArray(a, other) ==
    /\ CanOperate
    /\ track_arrays[a].live
    /\ track_arrays[other].live
    /\ a /= other
    /\ track_arrays' = [track_arrays EXCEPT ![a] = track_arrays[other], ![other] = track_arrays[a]]
    /\ UNCHANGED <<tracks, buffers, storages>>
    /\ TrackArrayFrame

\* the destructors of the first n tracks of a storage, run over the buffers
RECURSIVE DestroyElements(_, _, _)
DestroyElements(bufs, elements, n) ==
    IF n = 0 THEN bufs ELSE track_destructor(DestroyElements(bufs, elements, n - 1), elements[n])

\* ~track_array(): deallocate_type_array(*m_allocator, m_tracks, m_num_tracks) destroys
\* the tracks and deallocates the storage
DestroyArray(a) ==
    LET array == track_arrays[a]
    IN  /\ CanOperate
        /\ array.live
        /\ IF array.m_allocator /= 0
           THEN /\ storages' = [storages EXCEPT ![array.m_tracks].deallocated =
                                    Append(@, [allocator |-> array.m_allocator, num_elements |-> array.m_num_tracks])]
                /\ buffers' = DestroyElements(buffers, storages[array.m_tracks].tracks, array.m_num_tracks)
           ELSE UNCHANGED <<storages, buffers>>
        /\ track_arrays' = [track_arrays EXCEPT ![a] = NoTrackArray]
        /\ UNCHANGED tracks
        /\ TrackArrayFrame

\* the storage an array points at is there to read
StorageReadable(array) == array.m_tracks /= 0 /\ storages[array.m_tracks].deallocated = <<>>

\* the array of the caller that the tracks put in arrays reference: two samples of
\* the largest element
CallerArraySize == 2 * sizeof_element_type("vector4f")

\* array[index] = track_typed<type>::make_ref(desc, data, num_samples, sample_rate):
\* operator[] asks for index < m_num_tracks, the track made and the track of the
\* array are swapped, and the temporary is destroyed with what the array held
AssignElement(a, index, type, desc, num_samples, sample_rate) ==
    LET array == track_arrays[a]
        stride == sizeof_element_type(type)
        data == IF buffers = <<>> THEN <<Buffer(0, CallerArraySize, CallerCells(CallerArraySize))>> ELSE buffers
        made == track_typed(type, 0, 1, num_samples, stride, num_samples * stride, sample_rate, desc, "make_ref")
    IN  /\ CanOperate
        /\ array.live
        /\ index < array.m_num_tracks
        /\ StorageReadable(array)
        /\ storages' = [storages EXCEPT ![array.m_tracks].tracks[index + 1] = made]
        /\ buffers' = track_destructor(data, storages[array.m_tracks].tracks[index + 1])
        /\ UNCHANGED <<track_arrays, tracks>>
        /\ TrackArrayFrame

\* get_track_type and get_num_samples_per_track: of the first track if the array
\* has an allocator and tracks
array_get_track_type(array, elements) ==
    IF array.m_allocator /= 0 /\ array.m_num_tracks > 0 THEN elements[1].m_type ELSE "float1f"

get_num_samples_per_track(array, elements) ==
    IF array.m_allocator /= 0 /\ array.m_num_tracks > 0 THEN elements[1].m_num_samples ELSE 0

TypeError == "Tracks must all have the same type within an array"
SampleCountError == "Track array requires the same number of samples in every track"

\* is_valid from track_index on: the error of the first track that differs
RECURSIVE is_valid_from(_, _, _, _, _)
is_valid_from(array, elements, type, num_samples, track_index) ==
    IF track_index >= array.m_num_tracks THEN ""
    ELSE IF elements[track_index + 1].m_type /= type THEN TypeError
    ELSE IF elements[track_index + 1].m_num_samples /= num_samples THEN SampleCountError
    ELSE is_valid_from(array, elements, type, num_samples, track_index + 1)

is_valid(array, elements) ==
    is_valid_from(array, elements, array_get_track_type(array, elements),
                  get_num_samples_per_track(array, elements), 0)

\* is_valid called on the array in slot a; tracks of a storage that was deallocated
\* read as anything
CallIsValid(a) ==
    LET array == track_arrays[a]
        readable == array.m_num_tracks = 0 \/ StorageReadable(array)
        elements == IF array.m_tracks /= 0 THEN storages[array.m_tracks].tracks ELSE <<>>
    IN  /\ array.live
        /\ \E value \in {"", TypeError, SampleCountError} :
              /\ readable => value = is_valid(array, elements)
              /\ Called("is_valid", [array |-> array, tracks |-> elements, readable |-> readable], value, TRUE)

\* the sizes of the arrays made, and the tracks put in them
TrackArraySizes == {0, 2}
ArrayTracks == {<<"float1f", 1>>, <<"float1f", 2>>, <<"float2f", 2>>}

NextTrackArray ==
    \/ \E a \in TrackArraySlots : DefaultConstructArray(a)
    \/ \E a \in TrackArraySlots, allocator \in Allocators, num_tracks \in TrackArraySizes :
           ConstructArray(a, allocator, num_tracks)
    \/ \E a \in TrackArraySlots, other \in TrackArraySlots : MoveConstructArray(a, other)
    \/ \E a \in TrackArraySlots, other \in TrackArraySlots : MoveAssignArray(a, other)
    \/ \E a \in TrackArraySlots : DestroyArray(a)
    \/ \E a \in TrackArraySlots, index \in 0..1, made \in ArrayTracks,
          desc \in TrackDescriptions, sample_rate \in TrackSampleRates :
           AssignElement(a, index, made[1], desc, made[2], sample_rate)
    \/ \E a \in TrackArraySlots : CallIsValid(a)
    \/ DropSample

SpecTrackArray == InitTrack /\ [][NextTrackArray]_vars

-----------------------------------------------------------------------------
(* C25: every owned buffer is deallocated once, by its owner's destruction *)

\* the live tracks that own buffer b
Owners(b) == {t \in TrackSlots : tracks[t].live /\ is_owner(tracks[t]) /\ tracks[t].m_data = b}

\* C25: whatever tracks were made, moved, copied, referenced and destroyed, no two
\* live tracks own the same buffer; a buffer an allocator handed out is deallocated
\* exactly once, on that allocator, and it is so from the moment no live track
\* owns it any more; memory of the caller held through a reference track is
\* never deallocated.
C25_TrackOwnership ==
    \A b \in DOMAIN buffers :
        LET buffer == buffers[b]
        IN  /\ Cardinality(Owners(b)) <= 1
            /\ Len(buffer.deallocated) <= 1
            /\ \A i \in DOMAIN buffer.deallocated : buffer.deallocated[i].allocator = buffer.allocator
            /\ buffer.allocator = 0 => buffer.deallocated = <<>>
            /\ buffer.allocator /= 0 => (Owners(b) = {} <=> Len(buffer.deallocated) = 1)

\* an owned buffer was moved to another track and deallocated with it, the
\* moved-from track still alive, and a reference track over memory of the caller
\* was destroyed
C25_Witness ==
    /\ \E b \in DOMAIN buffers : buffers[b].allocator /= 0 /\ Len(buffers[b].deallocated) = 1
    /\ \E t \in TrackSlots : tracks[t].live /\ tracks[t].origin = "moved_from"
    /\ \E b \in DOMAIN buffers :
          /\ buffers[b].allocator = 0
          /\ buffers[b].deallocated = <<>>
          /\ \A t \in TrackSlots : tracks[t].m_data /= b

-----------------------------------------------------------------------------
(* C26: get_copy and get_ref preserve the attributes of the track *)

\* what the getters of a track return
Attributes(track) ==
    [get_num_samples |-> track.m_num_samples, get_stride |-> track.m_stride, get_type |-> track.m_type,
     get_category |-> track.m_category, get_element_size |-> track.m_element_size,
     get_sample_rate |-> track.m_sample_rate, get_description |-> track.m_desc]

\* C26: the track get_copy returns has the number of samples, stride, type,
\* category, element size, sample rate, description and sample values of the
\* source and owns a buffer of its own; the track get_ref returns has them too
\* and is a reference over the source's buffer.
C26_CopyAndRefPreserveAttributes ==
    /\ CalledFn("get_copy") =>
          LET source == sampled.result.args
              copy == sampled.result.value
          IN  /\ Attributes(copy.track) = Attributes(source.track)
              /\ source.readable => copy.cells = source.cells
              /\ is_owner(copy.track)
              /\ copy.track.m_data /= source.track.m_data
    /\ CalledFn("get_ref") =>
          LET source == sampled.result.args
              ref == sampled.result.value
          IN  /\ Attributes(ref.track) = Attributes(source.track)
              /\ source.readable => ref.cells = source.cells
              /\ is_ref(ref.track)
              /\ ref.track.m_data = source.track.m_data

-----------------------------------------------------------------------------
(* C27: mutable element access asks for an owner *)

ReferenceOrigins == {"make_ref", "get_ref", "moved_from"}

\* C27: the non-const operator[] of track and of track_typed fails an assertion
\* exactly when the track is a reference, as the tracks made by make_ref and
\* get_ref and the tracks moved from are, or index >= num_samples, and returns
\* the element at byte offset index * stride if not; the const operator[] fails
\* one exactly when index >= num_samples.
C27_MutableAccessAsksForOwner ==
    /\ \A t \in TrackSlots : tracks[t].live /\ tracks[t].origin \in ReferenceOrigins => is_ref(tracks[t])
    /\ sampled.fn = "operator[]" =>
          LET track == sampled.result.args.track
              index == sampled.result.args.index
          IN  /\ track.origin \in ReferenceOrigins => sampled.failed_assert
              /\ sampled.failed_assert <=> (is_ref(track) \/ index >= track.m_num_samples)
              /\ ~sampled.failed_assert => sampled.result.value = ElementAt(track.m_data, index * track.m_stride)
    /\ sampled.fn = "operator[] const" =>
          LET track == sampled.result.args.track
              index == sampled.result.args.index
          IN  sampled.failed_assert <=> index >= track.m_num_samples

\* the non-const operator[] of track_typed was called on a moved-from track for a
\* sample it has, and failed the assertion
C27_Witness ==
    /\ sampled.fn = "operator[]"
    /\ sampled.result.args.typed
    /\ sampled.result.args.track.origin = "moved_from"
    /\ sampled.result.args.index = 1
    /\ sampled.result.args.index < sampled.result.args.track.m_num_samples
    /\ sampled.failed_assert

-----------------------------------------------------------------------------
(* C28: is_valid compares every track with the first *)

\* the tracks of the array is_valid was called on, and whether one is like the first
ValidatedTracks == SubSeq(sampled.result.args.tracks, 1, sampled.result.args.array.m_num_tracks)
LikeFirst(track) == track.m_type = ValidatedTracks[1].m_type /\ track.m_num_samples = ValidatedTracks[1].m_num_samples
Offending == {i \in DOMAIN ValidatedTracks : ~LikeFirst(ValidatedTracks[i])}
FirstOffending == CHOOSE i \in Offending : \A j \in Offending : i <= j

\* is_valid was called on an array whose tracks are there to read
ValidityCall == CalledFn("is_valid") /\ sampled.result.args.readable

\* C28: is_valid returns the empty ErrorResult exactly when every track of the
\* array has the type and the number of samples of the first, an array of no
\* tracks included; if not it returns the type error when the first track that
\* differs from the first differs in type, the sample count error when it
\* differs in the number of samples alone.
C28_IsValidComparesWithFirst ==
    ValidityCall =>
        /\ sampled.result.value = "" <=> Offending = {}
        /\ Offending /= {} =>
               sampled.result.value =
                   IF ValidatedTracks[FirstOffending].m_type /= ValidatedTracks[1].m_type
                   THEN TypeError ELSE SampleCountError

-----------------------------------------------------------------------------
(* C29: the tracks storage is deallocated once *)

\* the live arrays that will free storage s
Freeing(s) == {a \in TrackArraySlots : track_arrays[a].live /\ track_arrays[a].m_allocator /= 0 /\ track_arrays[a].m_tracks = s}

\* C29: whatever arrays were constructed, moved and destroyed, a tracks storage is
\* deallocated at most once and on its own allocator, one live array at most
\* is to free it, and it is deallocated exactly when none is: the source of a
\* move construction frees nothing and the destination frees the storage, and of
\* two arrays swapped by move assignment each frees what it then holds.
C29_StorageDeallocatedOnce ==
    \A s \in DOMAIN storages :
        /\ Cardinality(Freeing(s)) <= 1
        /\ Len(storages[s].deallocated) <= 1
        /\ \A i \in DOMAIN storages[s].deallocated : storages[s].deallocated[i].allocator = storages[s].allocator
        /\ Freeing(s) = {} <=> Len(storages[s].deallocated) = 1

\* an array was move constructed from another and destroyed, and the storage was
\* deallocated once, the moved-from array still pointing at it
C29_Witness ==
    \E s \in DOMAIN storages, a \in TrackArraySlots :
        /\ Len(storages[s].deallocated) = 1
        /\ track_arrays[a].live
        /\ track_arrays[a].m_allocator = 0
        /\ track_arrays[a].m_tracks = s

=============================================================================
